---- MODULE Spec2Model ----
(***************************************************************************)
(* A model of oxproc: a local process supervisor and task runner.          *)
(*                                                                         *)
(* The module holds one state machine per component, each with its own     *)
(* specification over the same variables:                                  *)
(*   SpecTail  - LogReader: tail_last_lines (manager.rs)                   *)
(*   SpecTask  - TaskEngine: run_task, exec_task, run_shell_task (main.rs) *)
(*   SpecStore - StateStore: save_state and concurrent readers (state.rs)  *)
(*   SpecCli   - the commands status, stop and logs (state.rs, manager.rs) *)
(*   SpecSup   - ProcessSupervisor: run_manager_daemon (manager.rs)        *)
(*   SpecStart - start_daemon, called several times, beside a stop         *)
(*               (daemon.rs, state.rs, manager.rs)                         *)
(*   SpecFollow - LogReader: follow_file beside a writer (manager.rs)      *)
(*   SpecResolve - resolve_child_name on its own (task.rs)                 *)
(*   SpecWait  - StateStore: wait_for_manager_ready beside a save          *)
(*               (state.rs)                                                *)
(* A component's specification leaves the other components' variables at   *)
(* their idle values.                                                      *)
(***************************************************************************)
EXTENDS Integers, Sequences, FiniteSets, TLC

VARIABLES
    \* ---- LogReader: one call of tail_last_lines(path, n) ----
    tl_file,        \* the bytes of the file at `path`
    tl_n,           \* the argument n
    tl_buf,         \* buf: the bytes read so far (a suffix of the file)
    tl_read_size,   \* read_size
    tl_pc,          \* "loop" | "split" | "done"
    tl_out,         \* the returned Vec<String>
    \* ---- TaskEngine: one call of run_task(root, task, args) ----
    tasks,          \* the task map, HashMap<String, TaskConfig>
    rt_query,       \* the `task` argument, as the user typed it
    rt_pc,          \* "start" | "running" | "done"
    rt_outcome,     \* what run_task ended with
    threads,        \* the futures being polled: id -> [frames, pc, stack, stdio,
                    \* result, log]; log is the history of the future: every
                    \* exec_task call and return, every command's start and exit
    exits,          \* the futures whose command has ended, in the order of the ends
    rt_statuses,    \* per command that has ended, in that order: the ExitStatus
                    \* it ended with and what run_shell_task returned for it
    \* ---- StateStore: the state directory, one save_state, the readers ----
    fs_dir,         \* the state directory: file name -> file
    fs_data,        \* the text of each file, as the sequence of pieces written
    sv_pc,          \* save_state: "create" | "write" | "rename" | "done" | "killed"
    sv_state,       \* the ManagerState being saved
    sv_pos,         \* how many pieces of it are written
    sv_ino,         \* the file that save_state has open
    prev,           \* what a load returned before the save began
    rd,             \* the readers: id -> [pc, ino, res, opened_at]; opened_at
                    \* is where save_state was when the reader opened the file
    \* ---- the operating system ----
    alive,          \* the pids of the processes that are running
    signals,        \* the signals sent with kill(), in order
    \* ---- one command: status, stop or logs ----
    cli_pc,         \* "start" | "grace" | "mgr_wait" | "done"
    cli_cmd,        \* the command
    cli_name,       \* logs: the process asked for, Option<String>
    cli_out,        \* what the command printed
    cli_exit,       \* how it ended
    cli_st,         \* stop: st, the state it loaded
    cli_prev,       \* the commands run to their end before this one
    \* ---- ProcessSupervisor: run_manager_daemon ----
    sup_pc,         \* "loop" | "saving" | "serving" | "failed" | "waiting" |
                    \* "parked" | "shutdown" | "sleeping" | "exited" | "killed"
    configs,        \* the argument configs: Vec<ProcessConfig>
    sup_i,          \* the index of the config the for loop is at
    sup_children,   \* children: the pids of the Child handles
    proc_infos,     \* proc_infos: Vec<ProcessInfo>
    sup_err,        \* the error run_manager_daemon returned
    next_pid,       \* the pid the next spawned process gets
    manager_self,   \* std::process::id() of the daemon
    sup_sigs,       \* the signals delivered to the daemon that its signal
                    \* streams have not handed out yet
    \* ---- start: the calls of start_daemon for one project ----
    starts,         \* id -> [pc, cleaned, lock, locked, pidf, err, entry]: where
                    \* the call is, what cleanup returned, the file its lock_file
                    \* is open on, whether it holds the lock, the pid file that
                    \* daemonize holds locked, the error it ended with, whether
                    \* a daemon held the lock when the call began
    \* ---- LogReader: one call of follow_file(path, prefix, tx) ----
    fl_exists,      \* whether the file at `path` exists
    fl_file,        \* its bytes
    fl_pc,          \* "wait" | "open" | "read" | "sleep" | "done"
    fl_retries,     \* retries
    fl_pos,         \* pos, which is also the offset of the open file f
    fl_partial,     \* partial
    fl_sent,        \* what has been sent to tx, in order
    fl_start,       \* the position the first seek gave
    fl_truncs,      \* how often the file has been truncated
    fl_mark,        \* how many lines had been sent at the last truncation
    fl_settled,     \* the last length check found nothing left to read and
                    \* the file has not changed since
    \* ---- task names: one call of resolve_child_name(parent, child) ----
    rc_parent,      \* the argument parent
    rc_child,       \* the argument child
    rc_pc,          \* "call" | "done"
    rc_out,         \* the returned String
    \* ---- StateStore: one call of wait_for_manager_ready(root, timeout) ----
    wr_pc,          \* "check" | "read" | "sleep" | "ok" | "err"
    wr_timeout,     \* the argument timeout, in periods of the 200 ms sleep
    wr_elapsed,     \* start.elapsed(), in the same unit
    wr_polls,       \* what each read of state.json so far has given
    wr_last_err,    \* last_err: <<>> is None
    \* ---- ProcessSupervisor: the tasks of handle_output, one per stream ----
    dr_pc,          \* stream -> "open" | "reading" | "done" | "panicked"
    dr_pipe,        \* stream -> the lines the child wrote that are not read yet
    dr_log,         \* stream -> the lines appended to the stream's log file
    dr_after,       \* the streams that logged a line after another stream's
                    \* task had panicked
    \* ---- LogSink: the log files of one process over several daemons ----
    lg_files,       \* stream -> the lines of its log file; no entry: no file
    lg_all,         \* stream -> every line ever written to the file, in order
    lg_gen,         \* how many daemons have been started
    lg_tasks        \* stream -> where the running daemon's handle_output task
                    \* is: "open" | "writing"; empty while no daemon runs

tailVars == <<tl_file, tl_n, tl_buf, tl_read_size, tl_pc, tl_out>>
taskVars == <<tasks, rt_query, rt_pc, rt_outcome, threads, exits, rt_statuses>>
fsVars == <<fs_dir, fs_data>>
saveVars == <<sv_pc, sv_state, sv_pos, sv_ino>>
readVars == <<prev, rd>>
osVars == <<alive, signals>>
cliVars == <<cli_pc, cli_cmd, cli_name, cli_out, cli_exit, cli_st, cli_prev>>
supVars == <<sup_pc, configs, sup_i, sup_children, proc_infos, sup_err, next_pid,
             manager_self, sup_sigs>>

startVars == <<starts>>
followVars == <<fl_exists, fl_file, fl_pc, fl_retries, fl_pos, fl_partial, fl_sent,
                fl_start, fl_truncs, fl_mark, fl_settled>>
resolveVars == <<rc_parent, rc_child, rc_pc, rc_out>>
\* The components added after start.
waitVars == <<wr_pc, wr_timeout, wr_elapsed, wr_polls, wr_last_err>>
drainVars == <<dr_pc, dr_pipe, dr_log, dr_after>>
logVars == <<lg_files, lg_all, lg_gen, lg_tasks>>
extVars == <<followVars, resolveVars, waitVars, drainVars, logVars>>

vars == <<tailVars, taskVars, fsVars, saveVars, readVars, osVars, cliVars, supVars,
          startVars, extVars>>

\* What the actions of each component leave alone.
TailFrame ==
    UNCHANGED <<taskVars, fsVars, saveVars, readVars, osVars, cliVars, supVars, startVars,
                extVars>>
TaskFrame ==
    UNCHANGED <<tailVars, fsVars, saveVars, readVars, osVars, cliVars, supVars, startVars,
                extVars>>
SaveFrame ==
    UNCHANGED <<tailVars, taskVars, readVars, osVars, cliVars, supVars, startVars,
                extVars>>
ReadFrame ==
    UNCHANGED <<tailVars, taskVars, osVars, cliVars, supVars, startVars, extVars>>
CliFrame ==
    UNCHANGED <<tailVars, taskVars, saveVars, readVars, supVars, startVars, extVars>>
SupFrame == UNCHANGED <<tailVars, taskVars, readVars, cliVars, startVars, extVars>>
CoreFrame ==
    UNCHANGED <<tailVars, taskVars, fsVars, saveVars, readVars, osVars, cliVars, supVars,
                startVars>>
FollowFrame == CoreFrame /\ UNCHANGED <<resolveVars, waitVars, drainVars, logVars>>
ResolveFrame == CoreFrame /\ UNCHANGED <<followVars, waitVars, drainVars, logVars>>
LogFrame == CoreFrame /\ UNCHANGED <<followVars, resolveVars, waitVars, drainVars>>
WaitFrame ==
    UNCHANGED <<tailVars, taskVars, fsVars, saveVars, readVars, osVars, cliVars, supVars,
                startVars, followVars, resolveVars, drainVars, logVars>>
DrainFrame ==
    UNCHANGED <<tailVars, taskVars, fsVars, saveVars, readVars, cliVars, supVars,
                startVars, followVars, resolveVars, waitVars, logVars, signals>>
StartFrame ==
    UNCHANGED <<tailVars, taskVars, saveVars, readVars, cliVars, supVars, signals,
                extVars>>

(***************************************************************************)
(* Generic helpers on sequences.                                           *)
(***************************************************************************)
\* All sequences over S of length 0..n.
SeqsUpTo(S, n) == UNION {[1..k -> S] : k \in 0..n}

\* The last k elements of s (all of s when k >= Len(s)).
LastN(s, k) == IF Len(s) > k THEN SubSeq(s, Len(s) - k + 1, Len(s)) ELSE s

RECURSIVE ConcatAll(_)
ConcatAll(ss) == IF ss = <<>> THEN <<>> ELSE Head(ss) \o ConcatAll(Tail(ss))

RECURSIVE CountOf(_, _)
CountOf(s, x) ==
    IF s = <<>> THEN 0
    ELSE (IF Head(s) = x THEN 1 ELSE 0) + CountOf(Tail(s), x)

(***************************************************************************)
(* LogReader: tail_last_lines.                                             *)
(*                                                                         *)
(* A file is a sequence of bytes. Four kinds of byte are told apart: the   *)
(* newline 0x0A, an ASCII letter, the lead byte of a two-byte UTF-8        *)
(* character and a continuation byte. A decoded string is a sequence of    *)
(* characters: "nl", "a", "ch" (a well-formed two-byte character) and      *)
(* "bad" (U+FFFD, what from_utf8_lossy puts for a malformed byte).         *)
(***************************************************************************)
Bytes == {"nl", "a", "lead", "cont"}

\* Bounds of the tail model.
MaxFileLen == 5
MaxN == 3
\* manager.rs:361 reads 8192 bytes at a time; the model scales the chunk
\* down so that files of one, several and an exact multiple of chunks occur.
chunk == 2

\* String::from_utf8_lossy
RECURSIVE from_utf8_lossy(_)
from_utf8_lossy(b) ==
    IF b = <<>> THEN <<>>
    ELSE IF Head(b) = "lead" /\ Len(b) >= 2 /\ b[2] = "cont"
         THEN <<"ch">> \o from_utf8_lossy(SubSeq(b, 3, Len(b)))
    ELSE IF Head(b) \in {"lead", "cont"}
         THEN <<"bad">> \o from_utf8_lossy(Tail(b))
    ELSE <<Head(b)>> \o from_utf8_lossy(Tail(b))

\* str::split('\n'): always at least one element.
RECURSIVE SplitAcc(_, _)
SplitAcc(s, cur) ==
    IF s = <<>> THEN <<cur>>
    ELSE IF Head(s) = "nl" THEN <<cur>> \o SplitAcc(Tail(s), <<>>)
    ELSE SplitAcc(Tail(s), Append(cur, Head(s)))

split_nl(s) == SplitAcc(s, <<>>)

\* bytecount::count(&buf, b'\n')
newline_count(buf) == CountOf(buf, "nl")

\* manager.rs:383-385: drop one trailing empty element.
pop_trailing_empty(lines_vec) ==
    IF Len(lines_vec) > 0 /\ lines_vec[Len(lines_vec)] = <<>>
    THEN SubSeq(lines_vec, 1, Len(lines_vec) - 1)
    ELSE lines_vec

\* manager.rs:386-390
take_last(lines_vec, n) ==
    IF Len(lines_vec) > n
    THEN SubSeq(lines_vec, Len(lines_vec) - n + 1, Len(lines_vec))
    ELSE lines_vec

\* manager.rs:374: the loop stops once the buffer holds more than n newlines.
enough_newlines_off_by_one(buf, n) == newline_count(buf) >= n
enough_newlines(buf, n) == newline_count(buf) > n

TailInit ==
    /\ tl_file \in SeqsUpTo(Bytes, MaxFileLen)
    /\ tl_n \in 0..MaxN
    /\ tl_buf = <<>>
    /\ tl_read_size = 0
    /\ tl_pc = "loop"
    /\ tl_out = <<>>

TailIdle ==
    /\ tl_file = <<>>
    /\ tl_n = 0
    /\ tl_buf = <<>>
    /\ tl_read_size = 0
    /\ tl_pc = "idle"
    /\ tl_out = <<>>

\* One iteration of the while loop, manager.rs:362-380.
TailReadChunk ==
    /\ tl_pc = "loop"
    /\ Len(tl_file) - tl_read_size > 0
    /\ LET file_size == Len(tl_file)
           to_read == IF file_size - tl_read_size >= chunk
                      THEN chunk ELSE file_size - tl_read_size
           rs == tl_read_size + to_read
           temp == SubSeq(tl_file, file_size - rs + 1, file_size - rs + to_read)
           buf == temp \o tl_buf
       IN /\ tl_read_size' = rs
          /\ tl_buf' = buf
          /\ tl_pc' = IF enough_newlines(buf, tl_n) \/ rs >= file_size
                      THEN "split" ELSE "loop"
    /\ UNCHANGED <<tl_file, tl_n, tl_out>>
    /\ TailFrame

\* The loop condition fails on entry (an empty file), manager.rs:362.
TailLoopExit ==
    /\ tl_pc = "loop"
    /\ ~(Len(tl_file) - tl_read_size > 0)
    /\ tl_pc' = "split"
    /\ UNCHANGED <<tl_file, tl_n, tl_buf, tl_read_size, tl_out>>
    /\ TailFrame

\* manager.rs:381-391
TailSplit ==
    /\ tl_pc = "split"
    /\ tl_out' = take_last(pop_trailing_empty(split_nl(from_utf8_lossy(tl_buf))), tl_n)
    /\ tl_pc' = "done"
    /\ UNCHANGED <<tl_file, tl_n, tl_buf, tl_read_size>>
    /\ TailFrame

TailNext == TailReadChunk \/ TailLoopExit \/ TailSplit

(***************************************************************************)
(* Task names (task.rs). A name is a string, modelled as a sequence of     *)
(* characters so that '.', ':' and blanks can be rewritten.                *)
(***************************************************************************)
Replace(s, from, to) == [i \in 1..Len(s) |-> IF s[i] = from THEN to ELSE s[i]]

Contains(s, c) == \E i \in 1..Len(s) : s[i] = c

RECURSIVE TrimStart(_)
TrimStart(s) ==
    IF s # <<>> /\ Head(s) \in {" ", "\t", "\n"} THEN TrimStart(Tail(s)) ELSE s

RECURSIVE TrimEnd(_)
TrimEnd(s) ==
    IF s # <<>> /\ s[Len(s)] \in {" ", "\t", "\n"}
    THEN TrimEnd(SubSeq(s, 1, Len(s) - 1)) ELSE s

\* s.replace(':', ".").trim()
normalize_task_query(s) == TrimEnd(TrimStart(Replace(s, ":", ".")))

\* s.replace('.', ":")
display_task_name(s) == Replace(s, ".", ":")

resolve_child_name_joins_absolute(parent, child) ==
    LET child_norm == normalize_task_query(child)
    IN IF parent = <<>> THEN child_norm
       ELSE parent \o <<".">> \o child_norm
resolve_child_name(parent, child) ==
    LET child_norm == normalize_task_query(child)
    IN IF Contains(child_norm, ".") THEN child_norm
       ELSE IF parent = <<>> THEN child_norm
       ELSE parent \o <<".">> \o child_norm

\* Bound: the length of the child reference given to resolve_child_name.
MaxNameLen == 3

\* One call of resolve_child_name, with a parent that is empty, a plain name
\* or a dotted one, and a child of letters, dots, colons and blanks.
ResolveInit ==
    /\ rc_parent \in {<<>>, <<"g">>, <<"g", ".", "a">>}
    /\ rc_child \in SeqsUpTo({"a", ".", ":", " "}, MaxNameLen)
    /\ rc_pc = "call"
    /\ rc_out = <<>>

ResolveIdle ==
    /\ rc_parent = <<>>
    /\ rc_child = <<>>
    /\ rc_pc = "idle"
    /\ rc_out = <<>>

ResolveCall ==
    /\ rc_pc = "call"
    /\ rc_out' = resolve_child_name(rc_parent, rc_child)
    /\ rc_pc' = "done"
    /\ UNCHANGED <<rc_parent, rc_child>>
    /\ ResolveFrame

ResolveNext == ResolveCall

\* The byte order of the characters in use: Vec<String>::sort compares bytes.
CharCode(c) ==
    CASE c = " " -> 32 [] c = "." -> 46 [] c = ":" -> 58
      [] c = "a" -> 97 [] c = "b" -> 98 [] c = "c" -> 99
      [] c = "g" -> 103 [] c = "z" -> 122

RECURSIVE StrLess(_, _)
StrLess(s, t) ==
    IF t = <<>> THEN FALSE
    ELSE IF s = <<>> THEN TRUE
    ELSE IF CharCode(Head(s)) < CharCode(Head(t)) THEN TRUE
    ELSE IF CharCode(Head(s)) > CharCode(Head(t)) THEN FALSE
    ELSE StrLess(Tail(s), Tail(t))

\* The elements of a set of strings as a sorted Vec.
RECURSIVE SortedVec(_)
SortedVec(S) ==
    IF S = {} THEN <<>>
    ELSE LET m == CHOOSE x \in S : \A y \in S \ {x} : StrLess(x, y)
         IN <<m>> \o SortedVec(S \ {m})

\* tasks.keys().map(display_task_name).collect(), sorted (main.rs:428-430).
available == SortedVec({display_task_name(k) : k \in DOMAIN tasks})

(***************************************************************************)
(* Paths. A path is the sequence of its components below "/"; a cwd given  *)
(* in the configuration is absolute or relative to the project root.       *)
(***************************************************************************)
ProjectRoot == <<"proj">>
ExistingDirs == {ProjectRoot, ProjectRoot \o <<"sub">>}

\* Option<String>: <<>> is None, <<p>> is Some(p).
RelCwd(comps) == <<[abs |-> FALSE, comps |-> comps]>>
AbsCwd(comps) == <<[abs |-> TRUE, comps |-> comps]>>

\* if Path::new(cwd).is_absolute() { cwd } else { root.join(cwd) }
ResolveCwd(cwd) == IF cwd[1].abs THEN cwd[1].comps ELSE ProjectRoot \o cwd[1].comps

PathExists(abs) == abs \in ExistingDirs

(***************************************************************************)
(* TaskEngine values.                                                      *)
(***************************************************************************)
Shell(cwd) == [kind |-> "Shell", cwd |-> cwd, children |-> <<>>, parallel |-> FALSE]
Composite(children, parallel) ==
    [kind |-> "Composite", cwd |-> <<>>, children |-> children, parallel |-> parallel]

\* anyhow errors, by what their message holds.
NoErr == [kind |-> "none", task |-> <<>>, names |-> <<>>, path |-> <<>>]
\* "Unknown task '{}'. Available tasks: {}"
ErrUnknown(shown, avail) ==
    [kind |-> "unknown", task |-> shown, names |-> avail, path |-> <<>>]
\* "Dependency cycle detected: {}"
ErrCycle(pretty) == [kind |-> "cycle", task |-> <<>>, names |-> pretty, path |-> <<>>]
\* "Task '{}' cwd does not exist: {}"
ErrCwd(shown, abs) == [kind |-> "cwd", task |-> shown, names |-> <<>>, path |-> abs]
\* "Task terminated by signal"
ErrSignal == [kind |-> "signal", task |-> <<>>, names |-> <<>>, path |-> <<>>]

\* Result<ExecOutcome>
NoResult == [t |-> "None", code |-> 0, err |-> NoErr]
Success == [t |-> "Success", code |-> 0, err |-> NoErr]
Failed(code) == [t |-> "Failed", code |-> code, err |-> NoErr]
Err(e) == [t |-> "Err", code |-> 0, err |-> e]

\* StdioMode
Inherit == [mode |-> "Inherit", label |-> <<>>]
Prefixed(label) == [mode |-> "Prefixed", label |-> label]

\* Bound: a command exits with 0, with a code in 1..MaxExitCode, or by a signal.
MaxExitCode == 2

\* std::process::ExitStatus: code() is Some(c) for a command that exited
\* with code c and None for one that a signal ended; success() is code 0.
Exited(c) == [code |-> <<c>>]
Signaled == [code |-> <<>>]
ExitStatuses == {Exited(c) : c \in 0..MaxExitCode} \cup {Signaled}
success(status) == status.code = <<0>>

\* What run_shell_task makes of the command's exit status (main.rs:560-568,
\* 597-606).
ShellOutcomeUnwrapOr0(status) ==
    IF ~success(status)
    THEN Failed(IF status.code # <<>> THEN status.code[1] ELSE 0)
    ELSE Success
ShellOutcome(status) ==
    IF ~success(status)
    THEN IF status.code # <<>> THEN Failed(status.code[1]) ELSE Err(ErrSignal)
    ELSE Success

\* main.rs:392-399 and main: the exit status of `oxproc run`. An Err
\* returned from main is printed and the process exits with 1.
run_task_exit(outcome) ==
    IF outcome.t = "Success" THEN 0
    ELSE IF outcome.t = "Failed" THEN outcome.code
    ELSE 1

Event(ev, tid, depth, task, res, stack, stdio) ==
    [ev |-> ev, tid |-> tid, depth |-> depth, task |-> task, res |-> res,
     stack |-> stack, stdio |-> stdio]

(***************************************************************************)
(* The futures. exec_task is polled by one task of the runtime: the root   *)
(* future, and one future per branch of a parallel composite, named by its *)
(* path of branch indices. A future holds the exec_task calls nested in it *)
(* (frames; under the top one all are sequential composites waiting for a  *)
(* child), its own `stack` vector, and its StdioMode.                      *)
(***************************************************************************)
Front(s) == SubSeq(s, 1, Len(s) - 1)
Last(s) == s[Len(s)]

RECURSIVE LexLess(_, _)
LexLess(a, b) ==
    IF b = <<>> THEN FALSE
    ELSE IF a = <<>> THEN TRUE
    ELSE IF Head(a) < Head(b) THEN TRUE
    ELSE IF Head(a) > Head(b) THEN FALSE
    ELSE LexLess(Tail(a), Tail(b))

TopFrame(t) == Last(threads[t].frames)
TopName(t) == TopFrame(t).name
TopDepth(t) == Len(threads[t].frames)

\* The branches of the parallel composite that future t is running.
Kids(t) == {t \o <<j>> : j \in 1..Len(tasks[TopName(t)].children)}

\* A future that can run now without waiting for a command or a branch.
IsReady(t) ==
    \/ threads[t].pc \in {"enter", "shell", "seq", "par"}
    \/ threads[t].pc = "wait_join" /\ \A u \in Kids(t) : threads[u].pc = "done"

Ready == {t \in DOMAIN threads : IsReady(t)}

\* join_all polls its futures in order, and each runs until it has to wait:
\* the ready future first in branch order is the one that runs.
Turn == {t \in Ready : \A u \in Ready \ {t} : LexLess(t, u)}

\* main.rs:499-502: what a sequential composite does with a child's result.
SeqOnChildKeepsGoing(r) == IF r.t \in {"Success", "Failed"} THEN "continue" ELSE "return"
SeqOnChild(r) == IF r.t = "Success" THEN "continue" ELSE "return"

\* The top call of future t returns r, its stack being stk, after the events
\* evs: the future that results. A sequential caller goes on to its next child on
\* Success and returns r itself otherwise (main.rs:499-502), and so do its
\* own sequential callers, none of them popping the stack.
AfterReturn(t, r, stk, evs) ==
    LET th == threads[t]
        n == Len(th.frames)
        retAt(d) == Event("ret", t, d, th.frames[d].name, r, stk, th.stdio)
    IN IF n > 1 /\ SeqOnChild(r) = "continue"
       THEN [th EXCEPT !.frames = [Front(th.frames) EXCEPT
                                      ![n - 1].i = th.frames[n - 1].i + 1],
                       !.pc = "seq", !.stack = stk,
                       !.log = th.log \o evs \o <<retAt(n)>>]
       ELSE [th EXCEPT !.frames = <<>>, !.pc = "done", !.stack = stk, !.result = r,
                       !.log = th.log \o evs \o [k \in 1..n |-> retAt(n + 1 - k)]]

\* main.rs:509: stack.pop().
NotPopped(stack) == stack
Popped(stack) == Front(stack)

\* main.rs:463: `let mut local_stack = stack.clone()`, the stack a branch
\* starts with; `earlier` are the branches built before it, which would have
\* pushed their names had the vector been shared.
SharedStack(stack, earlier) == stack \o earlier
BranchStack(stack, earlier) == stack

\* main.rs:479-493: the results of the branches, in launch order.
RECURSIVE ParFold(_, _)
ParFold(results, first_failed) ==
    IF results = <<>>
    THEN IF first_failed = <<>> THEN Success ELSE Failed(first_failed[1])
    ELSE IF Head(results).t = "Err" THEN Head(results)
    ELSE IF Head(results).t = "Failed" /\ first_failed = <<>>
         THEN ParFold(Tail(results), <<Head(results).code>>)
    ELSE ParFold(Tail(results), first_failed)

RECURSIVE ParFoldLast(_, _)
ParFoldLast(results, first_failed) ==
    IF results = <<>>
    THEN IF first_failed = <<>> THEN Success ELSE Failed(first_failed[1])
    ELSE IF Head(results).t = "Err" THEN Head(results)
    ELSE IF Head(results).t = "Failed"
         THEN ParFoldLast(Tail(results), <<Head(results).code>>)
    ELSE ParFoldLast(Tail(results), first_failed)

ParAggregateLast(results) == ParFoldLast(results, <<>>)
ParAggregate(results) == ParFold(results, <<>>)

(***************************************************************************)
(* The task maps and requests the engine is run on. Keys are "g" and, in   *)
(* its namespace, "g.a", "g.b", "g.c"; a composite lists up to MaxChildren *)
(* children, written relative ("a"), dotted ("g.a") or with a colon        *)
(* ("g:b").                                                                *)
(***************************************************************************)
K_g == <<"g">>
K_ga == <<"g", ".", "a">>
K_gb == <<"g", ".", "b">>
K_gc == <<"g", ".", "c">>

\* Bound: the number of children of a composite.
MaxChildren == 2

\* The lists of children a composite may have: no child twice.
ChildLists(refs) ==
    {cs \in SeqsUpTo(refs, MaxChildren) :
        \A i, j \in 1..Len(cs) : cs[i] = cs[j] => i = j}
Composites(refs) == {Composite(cs, p) : cs \in ChildLists(refs), p \in BOOLEAN}

Absent == [kind |-> "Absent", cwd |-> <<>>, children |-> <<>>, parallel |-> FALSE]

OptG == Composites({<<"a">>, <<"b">>})
OptGA == {Shell(<<>>), Shell(RelCwd(<<"nodir">>))}
            \cup Composites({<<"g", ":", "b">>, <<"g", ".", "c">>})
OptGB == {Absent, Shell(<<>>), Shell(AbsCwd(<<"gone">>))}
            \cup Composites({<<"g", ".", "a">>})
            \cup {Composite(<< <<"g", ":", "c">> >>, FALSE)}
OptGC == {Absent, Shell(RelCwd(<<"sub">>))}

Queries == {<<"g">>, <<"g", ":", "a">>, <<"z">>}

TaskInit ==
    /\ \E og \in OptG, oa \in OptGA, ob \in OptGB, oc \in OptGC :
         LET all == (K_g :> og) @@ (K_ga :> oa) @@ (K_gb :> ob) @@ (K_gc :> oc)
             present == {k \in DOMAIN all : all[k].kind # "Absent"}
         IN tasks = [k \in present |-> all[k]]
    /\ rt_query \in Queries
    /\ rt_pc = "start"
    /\ rt_outcome = NoResult
    /\ threads = <<>>
    /\ exits = <<>>
    /\ rt_statuses = <<>>

TaskIdle ==
    /\ tasks = <<>>
    /\ rt_query = <<>>
    /\ rt_pc = "idle"
    /\ rt_outcome = NoResult
    /\ threads = <<>>
    /\ exits = <<>>
    /\ rt_statuses = <<>>

NewThread(name, stack, stdio) ==
    [frames |-> <<[name |-> name, i |-> 1]>>, pc |-> "enter", stack |-> stack,
     stdio |-> stdio, result |-> NoResult, log |-> <<>>]

\* run_task up to the call of exec_task, main.rs:360-392.
RunTaskStart ==
    /\ rt_pc = "start"
    /\ LET key == normalize_task_query(rt_query)
       IN IF key \notin DOMAIN tasks
          THEN /\ rt_outcome' = Err(ErrUnknown(rt_query, available))
               /\ rt_pc' = "done"
               /\ UNCHANGED threads
          ELSE /\ threads' = (<<>> :> NewThread(key, <<>>, Inherit))
               /\ rt_pc' = "running"
               /\ UNCHANGED rt_outcome
    /\ UNCHANGED <<tasks, rt_query, exits, rt_statuses>>
    /\ TaskFrame

\* exec_task from its entry to the match on the task's kind, main.rs:427-451.
Enter(t) ==
    /\ threads[t].pc = "enter"
    /\ LET th == threads[t]
           name == TopName(t)
           call == Event("call", t, TopDepth(t), name, NoResult, th.stack, th.stdio)
       IN IF name \notin DOMAIN tasks
          THEN LET r == Err(ErrUnknown(display_task_name(name), available))
               IN threads' = [threads EXCEPT
                                 ![t] = AfterReturn(t, r, th.stack, <<call>>)]
          ELSE IF \E j \in 1..Len(th.stack) : th.stack[j] = name
          THEN LET stk == Append(th.stack, name)
                   pretty == [j \in 1..Len(stk) |-> display_task_name(stk[j])]
               IN threads' = [threads EXCEPT
                     ![t] = AfterReturn(t, Err(ErrCycle(pretty)), stk, <<call>>)]
          ELSE threads' = [threads EXCEPT
                     ![t].stack = Append(th.stack, name),
                     ![t].log = Append(th.log, call),
                     ![t].pc = IF tasks[name].kind = "Shell" THEN "shell"
                               ELSE IF tasks[name].parallel THEN "par" ELSE "seq"]
    /\ UNCHANGED <<tasks, rt_query, rt_pc, rt_outcome, exits, rt_statuses>>
    /\ TaskFrame

\* run_shell_task up to the spawn of `sh -c`, main.rs:524-560 and 570-575.
ShellStart(t) ==
    /\ threads[t].pc = "shell"
    /\ LET th == threads[t]
           name == TopName(t)
           cwd == tasks[name].cwd
       IN IF cwd # <<>> /\ ~PathExists(ResolveCwd(cwd))
          THEN LET r == Err(ErrCwd(display_task_name(name), ResolveCwd(cwd)))
               IN threads' = [threads EXCEPT ![t] = AfterReturn(t, r, th.stack, <<>>)]
          ELSE threads' = [threads EXCEPT
                     ![t].pc = "wait_proc",
                     ![t].log = Append(th.log, Event("start", t, TopDepth(t), name,
                                                     NoResult, th.stack, th.stdio))]
    /\ UNCHANGED <<tasks, rt_query, rt_pc, rt_outcome, exits, rt_statuses>>
    /\ TaskFrame

\* The command of future t ends and the future is polled again: the rest of
\* run_shell_task (main.rs:560-568, 597-606) and of exec_task (main.rs:453,
\* 509-510). An Err leaves exec_task through `?`, before stack.pop().
ProcExit(t, status) ==
    /\ threads[t].pc = "wait_proc"
    /\ LET th == threads[t]
           res == ShellOutcome(status)
           exit == Event("exit", t, TopDepth(t), TopName(t), res, th.stack, th.stdio)
       IN /\ threads' = [threads EXCEPT ![t] =
                AfterReturn(t, res, IF res.t = "Err" THEN th.stack ELSE Popped(th.stack),
                            <<exit>>)]
          /\ rt_statuses' = Append(rt_statuses, [status |-> status, res |-> res])
    /\ exits' = Append(exits, t)
    /\ UNCHANGED <<tasks, rt_query, rt_pc, rt_outcome>>
    /\ TaskFrame

\* One turn of the sequential loop, main.rs:496-504 and 509-510: call the
\* next child, or leave the loop with Success.
SeqStep(t) ==
    /\ threads[t].pc = "seq"
    /\ LET th == threads[t]
           name == TopName(t)
           children == tasks[name].children
           i == TopFrame(t).i
       IN IF i > Len(children)
          THEN threads' = [threads EXCEPT
                     ![t] = AfterReturn(t, Success, Popped(th.stack), <<>>)]
          ELSE threads' = [threads EXCEPT
                     ![t].frames = Append(th.frames,
                         [name |-> resolve_child_name(name, children[i]), i |-> 1]),
                     ![t].pc = "enter"]
    /\ UNCHANGED <<tasks, rt_query, rt_pc, rt_outcome, exits, rt_statuses>>
    /\ TaskFrame

\* A parallel composite builds one future per child, each with a clone of
\* the stack and the child's label, and awaits join_all, main.rs:458-477.
ParLaunch(t) ==
    /\ threads[t].pc = "par"
    /\ LET th == threads[t]
           name == TopName(t)
           children == tasks[name].children
           child_abs(j) == resolve_child_name(name, children[j])
           futs == {t \o <<j>> : j \in 1..Len(children)}
       IN threads' = [u \in DOMAIN threads \cup futs |->
             IF u \in futs
             THEN NewThread(child_abs(Last(u)),
                            BranchStack(th.stack,
                                        [j \in 1..(Last(u) - 1) |-> child_abs(j)]),
                            Prefixed(display_task_name(child_abs(Last(u)))))
             ELSE IF u = t THEN [th EXCEPT !.pc = "wait_join"]
             ELSE threads[u]]
    /\ UNCHANGED <<tasks, rt_query, rt_pc, rt_outcome, exits, rt_statuses>>
    /\ TaskFrame

\* join_all has every result: main.rs:477-493 and 509-510. An Err among the
\* results leaves exec_task through `?`, before stack.pop(). The histories of
\* the branches join the composite's, in branch order.
ParJoin(t) ==
    /\ threads[t].pc = "wait_join"
    /\ LET th == threads[t]
           k == Len(tasks[TopName(t)].children)
           results == [j \in 1..k |-> threads[t \o <<j>>].result]
           r == ParAggregate(results)
           joined == [u \in DOMAIN threads \ Kids(t) |-> threads[u]]
           logs == ConcatAll([j \in 1..k |-> threads[t \o <<j>>].log])
       IN threads' = [joined EXCEPT ![t] =
             AfterReturn(t, r, IF r.t = "Err" THEN th.stack ELSE Popped(th.stack), logs)]
    /\ UNCHANGED <<tasks, rt_query, rt_pc, rt_outcome, exits, rt_statuses>>
    /\ TaskFrame

\* block_on returns: run_task ends with the root future's result,
\* main.rs:392-399 (Failed(code) becomes the exit code of the process).
RunTaskFinish ==
    /\ rt_pc = "running"
    /\ threads[<<>>].pc = "done"
    /\ rt_outcome' = threads[<<>>].result
    /\ rt_pc' = "done"
    /\ UNCHANGED <<tasks, rt_query, threads, exits, rt_statuses>>
    /\ TaskFrame

\* While run_task is running: the future whose turn it is runs; when every
\* future waits, the runtime sleeps until some command has ended.
TaskNext ==
    \/ RunTaskStart
    \/ rt_pc = "running" /\ \E t \in Turn : Enter(t)
    \/ rt_pc = "running" /\ \E t \in Turn : ShellStart(t)
    \/ rt_pc = "running" /\ \E t \in Turn : SeqStep(t)
    \/ rt_pc = "running" /\ \E t \in Turn : ParLaunch(t)
    \/ rt_pc = "running" /\ \E t \in Turn : ParJoin(t)
    \/ rt_pc = "running" /\ Ready = {}
          /\ \E t \in DOMAIN threads, status \in ExitStatuses : ProcExit(t, status)
    \/ RunTaskFinish

(***************************************************************************)
(* StateStore values (state.rs:9-33). A String is a sequence of            *)
(* characters; a DateTime<Utc> is its seconds and nanoseconds.             *)
(***************************************************************************)
ManagerInfo(pid, started_at, project_root, version) ==
    [pid |-> pid, started_at |-> started_at, project_root |-> project_root,
     version |-> version]

ProcessInfo(name, pid, pgid, cmd, cwd, stdout_log, stderr_log, started_at) ==
    [name |-> name, pid |-> pid, pgid |-> pgid, cmd |-> cmd, cwd |-> cwd,
     stdout_log |-> stdout_log, stderr_log |-> stderr_log,
     started_at |-> started_at]

ManagerState(manager, processes) == [manager |-> manager, processes |-> processes]

DateTime(secs, nanos) == [secs |-> secs, nanos |-> nanos]

(***************************************************************************)
(* serde_json, as far as ManagerState uses it. The text of the file is the *)
(* sequence of pieces the serializer writes, one write call each: braces,  *)
(* keys, and values in their JSON spelling (strings escaped, numbers in    *)
(* decimal digits, null). Commas, colons and white space are left out.     *)
(***************************************************************************)
Tok(t, v) == [t |-> t, v |-> v]
ObjOpen == Tok("{", <<>>)
ObjClose == Tok("}", <<>>)
ArrOpen == Tok("[", <<>>)
ArrClose == Tok("]", <<>>)
Null == Tok("null", <<>>)
Key(k) == Tok("key", <<k>>)

DigitChars == <<"0", "1", "2", "3", "4", "5", "6", "7", "8", "9">>
IsDigit(c) == \E i \in 1..10 : DigitChars[i] = c
DigitVal(c) == (CHOOSE i \in 1..10 : DigitChars[i] = c) - 1

RECURSIVE NatDigits(_)
NatDigits(n) ==
    IF n < 10 THEN <<DigitChars[n + 1]>>
    ELSE NatDigits(n \div 10) \o <<DigitChars[(n % 10) + 1]>>

\* itoa: the decimal spelling of an integer.
IntDigits(n) == IF n < 0 THEN <<"-">> \o NatDigits(0 - n) ELSE NatDigits(n)

RECURSIVE DigitsNat(_)
DigitsNat(ds) ==
    IF ds = <<>> THEN 0 ELSE 10 * DigitsNat(Front(ds)) + DigitVal(Last(ds))

AllDigits(ds) == ds # <<>> /\ \A i \in 1..Len(ds) : IsDigit(ds[i])

IsIntText(ds) ==
    IF ds # <<>> /\ Head(ds) = "-" THEN AllDigits(Tail(ds)) ELSE AllDigits(ds)

TextInt(ds) == IF Head(ds) = "-" THEN 0 - DigitsNat(Tail(ds)) ELSE DigitsNat(ds)

RECURSIVE Pow10(_)
Pow10(k) == IF k = 0 THEN 1 ELSE 10 * Pow10(k - 1)

\* n in exactly w digits, zero-padded.
RECURSIVE Padded(_, _)
Padded(n, w) ==
    IF w = 0 THEN <<>> ELSE Padded(n \div 10, w - 1) \o <<DigitChars[(n % 10) + 1]>>

\* A string between quotes: '"' and '\' get a backslash in front.
RECURSIVE escape(_)
escape(s) ==
    IF s = <<>> THEN <<>>
    ELSE (IF Head(s) \in {"\"", "\\"} THEN <<"\\", Head(s)>> ELSE <<Head(s)>>)
             \o escape(Tail(s))

\* The text between the quotes is well formed: every backslash escapes a
\* quote or a backslash, and no quote stands alone.
RECURSIVE WellEscaped(_)
WellEscaped(v) ==
    IF v = <<>> THEN TRUE
    ELSE IF Head(v) = "\\"
         THEN Len(v) >= 2 /\ v[2] \in {"\"", "\\"} /\ WellEscaped(Tail(Tail(v)))
    ELSE Head(v) # "\"" /\ WellEscaped(Tail(v))

RECURSIVE unescape(_)
unescape(v) ==
    IF v = <<>> THEN <<>>
    ELSE IF Head(v) = "\\" THEN <<v[2]>> \o unescape(Tail(Tail(v)))
    ELSE <<Head(v)>> \o unescape(Tail(v))

Str(s) == Tok("str", escape(s))
Num(n) == Tok("num", IntDigits(n))

\* chrono's text of a DateTime<Utc>: the whole seconds (standing for the
\* date and time of day), then the nanoseconds as no, 3, 6 or 9 digits of
\* fraction, whichever is the shortest that loses nothing, then "Z".
fmt_datetime(ts) ==
    NatDigits(ts.secs)
        \o (IF ts.nanos = 0 THEN <<>>
            ELSE IF ts.nanos % 1000000 = 0
                 THEN <<".">> \o Padded(ts.nanos \div 1000000, 3)
            ELSE IF ts.nanos % 1000 = 0
                 THEN <<".">> \o Padded(ts.nanos \div 1000, 6)
            ELSE <<".">> \o Padded(ts.nanos, 9))
        \o <<"Z">>

\* Where the fraction starts in the text of a DateTime, 0 if it has none.
DotAt(s) ==
    IF \E i \in 1..Len(s) : s[i] = "."
    THEN CHOOSE i \in 1..Len(s) : s[i] = "." /\ \A j \in 1..(i - 1) : s[j] # "."
    ELSE 0

IsDateTimeText(s) ==
    /\ Len(s) >= 2
    /\ Last(s) = "Z"
    /\ IF DotAt(s) = 0 THEN AllDigits(Front(s))
       ELSE /\ AllDigits(SubSeq(s, 1, DotAt(s) - 1))
            /\ AllDigits(SubSeq(s, DotAt(s) + 1, Len(s) - 1))
            /\ Len(s) - 1 - DotAt(s) <= 9

parse_datetime(s) ==
    IF DotAt(s) = 0 THEN DateTime(DigitsNat(Front(s)), 0)
    ELSE LET frac == SubSeq(s, DotAt(s) + 1, Len(s) - 1)
         IN DateTime(DigitsNat(SubSeq(s, 1, DotAt(s) - 1)),
                     DigitsNat(frac) * Pow10(9 - Len(frac)))

\* #[derive(Serialize)] of ManagerInfo and ProcessInfo (state.rs:9-27).
ser_ManagerInfo(m) ==
    <<ObjOpen,
      Key("pid"), Num(m.pid),
      Key("started_at"), Tok("str", fmt_datetime(m.started_at)),
      Key("project_root"), Str(m.project_root),
      Key("version"), Num(m.version),
      ObjClose>>

ser_ProcessInfo_skip_cwd(p) ==
    <<ObjOpen,
      Key("name"), Str(p.name),
      Key("pid"), Num(p.pid),
      Key("pgid"), Num(p.pgid),
      Key("cmd"), Str(p.cmd),
      Key("cwd"), Null,
      Key("stdout_log"), Str(p.stdout_log),
      Key("stderr_log"), Str(p.stderr_log),
      Key("started_at"), Tok("str", fmt_datetime(p.started_at)),
      ObjClose>>

ser_ProcessInfo(p) ==
    <<ObjOpen,
      Key("name"), Str(p.name),
      Key("pid"), Num(p.pid),
      Key("pgid"), Num(p.pgid),
      Key("cmd"), Str(p.cmd),
      Key("cwd"), IF p.cwd = <<>> THEN Null ELSE Str(p.cwd[1]),
      Key("stdout_log"), Str(p.stdout_log),
      Key("stderr_log"), Str(p.stderr_log),
      Key("started_at"), Tok("str", fmt_datetime(p.started_at)),
      ObjClose>>

ManagerInfoLen == 10
ProcessInfoLen == 18

\* serde_json::to_writer_pretty(&mut f, state): the pieces written to f.
to_writer_pretty(st) ==
    <<ObjOpen, Key("manager")>> \o ser_ManagerInfo(st.manager)
        \o <<Key("processes"), ArrOpen>>
        \o ConcatAll([i \in 1..Len(st.processes) |-> ser_ProcessInfo(st.processes[i])])
        \o <<ArrClose, ObjClose>>

\* The values as serde_json reads them back.
IsStr(tok) == tok.t = "str" /\ WellEscaped(tok.v)
IsU32(tok) == tok.t = "num" /\ IsIntText(tok.v) /\ Head(tok.v) # "-"
IsI32(tok) == tok.t = "num" /\ IsIntText(tok.v)
IsDateTime(tok) == IsStr(tok) /\ IsDateTimeText(unescape(tok.v))

\* #[derive(Deserialize)] of ManagerInfo and ProcessInfo, for the fields in
\* the order save_state writes them.
ok_ManagerInfo(t) ==
    /\ Len(t) = ManagerInfoLen
    /\ t[1] = ObjOpen /\ t[10] = ObjClose
    /\ t[2] = Key("pid") /\ IsU32(t[3])
    /\ t[4] = Key("started_at") /\ IsDateTime(t[5])
    /\ t[6] = Key("project_root") /\ IsStr(t[7])
    /\ t[8] = Key("version") /\ IsU32(t[9])

de_ManagerInfo(t) ==
    ManagerInfo(TextInt(t[3].v), parse_datetime(unescape(t[5].v)),
                unescape(t[7].v), TextInt(t[9].v))

ok_ProcessInfo(t) ==
    /\ Len(t) = ProcessInfoLen
    /\ t[1] = ObjOpen /\ t[18] = ObjClose
    /\ t[2] = Key("name") /\ IsStr(t[3])
    /\ t[4] = Key("pid") /\ IsU32(t[5])
    /\ t[6] = Key("pgid") /\ IsI32(t[7])
    /\ t[8] = Key("cmd") /\ IsStr(t[9])
    /\ t[10] = Key("cwd") /\ (t[11] = Null \/ IsStr(t[11]))
    /\ t[12] = Key("stdout_log") /\ IsStr(t[13])
    /\ t[14] = Key("stderr_log") /\ IsStr(t[15])
    /\ t[16] = Key("started_at") /\ IsDateTime(t[17])

de_ProcessInfo(t) ==
    ProcessInfo(unescape(t[3].v), TextInt(t[5].v), TextInt(t[7].v),
                unescape(t[9].v),
                IF t[11] = Null THEN <<>> ELSE <<unescape(t[11].v)>>,
                unescape(t[13].v), unescape(t[15].v),
                parse_datetime(unescape(t[17].v)))

\* Result<ManagerState>
NoState == ManagerState(ManagerInfo(0, DateTime(0, 0), <<>>, 0), <<>>)
LoadOk(st) == [ok |-> TRUE, err |-> "none", val |-> st]
LoadErr(e) == [ok |-> FALSE, err |-> e, val |-> NoState]

\* serde_json::from_str::<ManagerState>(&data)
from_str(data) ==
    LET n == (Len(data) - ManagerInfoLen - 6) \div ProcessInfoLen
        m == SubSeq(data, 3, 2 + ManagerInfoLen)
        base == ManagerInfoLen + 4
        proc(i) == SubSeq(data, base + (i - 1) * ProcessInfoLen + 1,
                          base + i * ProcessInfoLen)
        wellformed ==
            /\ Len(data) >= ManagerInfoLen + 6
            /\ (Len(data) - ManagerInfoLen - 6) % ProcessInfoLen = 0
            /\ data[1] = ObjOpen /\ data[2] = Key("manager")
            /\ ok_ManagerInfo(m)
            /\ data[ManagerInfoLen + 3] = Key("processes")
            /\ data[ManagerInfoLen + 4] = ArrOpen
            /\ \A i \in 1..n : ok_ProcessInfo(proc(i))
            /\ data[Len(data) - 1] = ArrClose
            /\ data[Len(data)] = ObjClose
    IN IF wellformed
       THEN LoadOk(ManagerState(de_ManagerInfo(m),
                                [i \in 1..n |-> de_ProcessInfo(proc(i))]))
       ELSE LoadErr("parse")

(***************************************************************************)
(* The project's state directory. fs_dir maps the names in it to files,    *)
(* fs_data holds the text of every file ever created (a file lives on      *)
(* while someone has it open, whatever happens to its name).               *)
(***************************************************************************)
state_file == "state.json"
manager_pid == "manager.pid"
manager_lock == "manager.lock"

\* let tmp = dir.join("state.json.tmp"), state.rs:57
tmp_in_place == "state.json"
tmp == "state.json.tmp"

\* The directory with name n bound to file f, any other name as before.
Bind(dir, n, f) ==
    [x \in DOMAIN dir \cup {n} |-> IF x = n THEN f ELSE dir[x]]

Unbind(dir, names) == [x \in DOMAIN dir \ names |-> dir[x]]

\* load_state_from_root, state.rs:65-70, on the file that state.json names
\* now: read_to_string, then from_str.
load_state_from_root ==
    IF state_file \notin DOMAIN fs_dir THEN LoadErr("io")
    ELSE from_str(fs_data[fs_dir[state_file]])

\* save_state, state.rs:56-58: File::create makes the temporary file, or
\* empties the one a dead save left behind.
SaveCreate ==
    /\ sv_pc = "create"
    /\ IF tmp \in DOMAIN fs_dir
       THEN /\ fs_data' = [fs_data EXCEPT ![fs_dir[tmp]] = <<>>]
            /\ sv_ino' = fs_dir[tmp]
            /\ UNCHANGED fs_dir
       ELSE /\ fs_data' = Append(fs_data, <<>>)
            /\ sv_ino' = Len(fs_data) + 1
            /\ fs_dir' = Bind(fs_dir, tmp, Len(fs_data) + 1)
    /\ sv_pos' = 0
    /\ sv_pc' = "write"
    /\ UNCHANGED sv_state
    /\ SaveFrame

\* state.rs:59-60: to_writer_pretty writes its next piece to the file; the
\* File is not buffered, so flush has nothing left to do.
SaveWrite ==
    /\ sv_pc = "write"
    /\ LET data == to_writer_pretty(sv_state)
       IN /\ fs_data' = [fs_data EXCEPT ![sv_ino] = Append(@, data[sv_pos + 1])]
          /\ sv_pos' = sv_pos + 1
          /\ sv_pc' = IF sv_pos + 1 = Len(data) THEN "rename" ELSE "write"
    /\ UNCHANGED <<fs_dir, sv_state, sv_ino>>
    /\ SaveFrame

\* state.rs:61: rename(tmp, state.json).
SaveRename ==
    /\ sv_pc = "rename"
    /\ fs_dir' = Bind(Unbind(fs_dir, {tmp}), state_file, fs_dir[tmp])
    /\ sv_pc' = "done"
    /\ UNCHANGED <<fs_data, sv_state, sv_pos, sv_ino>>
    /\ SaveFrame

\* The saving process is killed before save_state returns.
SaveKilled ==
    /\ sv_pc \in {"write", "rename"}
    /\ sv_pc' = "killed"
    /\ UNCHANGED <<fs_dir, fs_data, sv_state, sv_pos, sv_ino>>
    /\ SaveFrame

\* A reader of state.json (load_state_from_root, state.rs:65-70, or
\* wait_for_manager_ready, state.rs:134-136): read_to_string opens the file
\* that state.json names ...
ReadOpen(r) ==
    /\ rd[r].pc = "idle"
    /\ rd' = [rd EXCEPT ![r] =
                IF state_file \in DOMAIN fs_dir
                THEN [@ EXCEPT !.pc = "open", !.ino = fs_dir[state_file],
                               !.opened_at = sv_pc]
                ELSE [@ EXCEPT !.pc = "done", !.res = LoadErr("io"),
                               !.opened_at = sv_pc]]
    /\ UNCHANGED <<prev, fs_dir, fs_data, sv_pc, sv_state, sv_pos, sv_ino>>
    /\ ReadFrame

\* ... and reads what the file holds by then; from_str parses it.
ReadParse(r) ==
    /\ rd[r].pc = "open"
    /\ rd' = [rd EXCEPT ![r].pc = "done", ![r].res = from_str(fs_data[rd[r].ino])]
    /\ UNCHANGED <<prev, fs_dir, fs_data, sv_pc, sv_state, sv_pos, sv_ino>>
    /\ ReadFrame

(***************************************************************************)
(* The states saved and the directories they are saved into.               *)
(***************************************************************************)
\* Bounds: the processes of a saved state, and the concurrent readers.
MaxProcs == 2
NReaders == 2

Managers ==
    {ManagerInfo(7, DateTime(0, 0), <<"/", "p">>, 1),
     ManagerInfo(4096, DateTime(12, 5000), <<"/", "\"", "\\">>, 2)}

Procs ==
    {ProcessInfo(<<"w">>, 10, 10, <<"r", "u", "n">>, <<>>,
                 <<"w", ".out.log">>, <<"w", ".err.log">>, DateTime(12, 5000000)),
     ProcessInfo(<<"\"">>, 205, 0 - 3, <<"\\", "\"">>, << <<"s", "u", "b">> >>,
                 <<"o">>, <<"e">>, DateTime(3, 5)),
     ProcessInfo(<<"w">>, 11, 11, <<>>, << <<>> >>, <<>>, <<"\\">>,
                 DateTime(1, 120000000))}

States == {ManagerState(m, ps) : m \in Managers, ps \in SeqsUpTo(Procs, MaxProcs)}

\* What an earlier run of the daemon left in state.json.
OldState ==
    ManagerState(ManagerInfo(3, DateTime(1, 0), <<"/", "p">>, 1),
                 <<ProcessInfo(<<"w">>, 4, 4, <<"r", "u", "n">>, <<>>,
                               <<"w", ".out.log">>, <<"w", ".err.log">>,
                               DateTime(1, 0))>>)

\* What a save that was killed left in state.json.tmp.
StaleTmp == SubSeq(to_writer_pretty(OldState), 1, 5)

StoreInit ==
    /\ sv_state \in States
    /\ \E old, stale \in BOOLEAN :
         /\ fs_data = (IF old THEN <<to_writer_pretty(OldState)>> ELSE <<>>)
                         \o (IF stale THEN <<StaleTmp>> ELSE <<>>)
         /\ fs_dir = [n \in (IF old THEN {state_file} ELSE {})
                              \cup (IF stale THEN {tmp} ELSE {}) |->
                         IF n = state_file THEN 1 ELSE IF old THEN 2 ELSE 1]
         /\ prev = IF old THEN LoadOk(OldState) ELSE LoadErr("io")
    /\ sv_pc = "create"
    /\ sv_pos = 0
    /\ sv_ino = 0
    /\ rd = [r \in 1..NReaders |->
                [pc |-> "idle", ino |-> 0, res |-> LoadErr("none"),
                 opened_at |-> "none"]]

StoreNext ==
    \/ SaveCreate
    \/ SaveWrite
    \/ SaveRename
    \/ SaveKilled
    \/ \E r \in DOMAIN rd : ReadOpen(r)
    \/ \E r \in DOMAIN rd : ReadParse(r)

(***************************************************************************)
(* The commands that read the saved state: status, stop, logs.             *)
(***************************************************************************)
Msg(text, about) == [text |-> text, about |-> about]
Sig(sig, to) == [sig |-> sig, to |-> to]

\* Bound: the number of commands run one after the other.
MaxRuns == 2

\* match load_state_from_root(root) { Ok(s) => s, Err(_) => ... }
NoStateFoundOnlyIfAbsent(ld) == ld.err = "io"
NoStateFound(ld) == ~ld.ok

\* println!("No daemon state found for this project."); return Ok(())
NoDaemonState == <<Msg("No daemon state found for this project.", <<>>)>>

\* print_status, state.rs:72-96. kill(pid, None) probes and sends nothing.
CliStatus ==
    /\ cli_pc = "start"
    /\ cli_cmd = "status"
    /\ LET ld == load_state_from_root
           st == ld.val
       IN cli_out' =
            IF NoStateFound(ld) THEN NoDaemonState
            ELSE <<Msg("Manager PID", <<st.manager.pid>>), Msg("Processes:", <<>>)>>
                    \o [i \in 1..Len(st.processes) |->
                          Msg(IF st.processes[i].pid \in alive
                              THEN "alive=true" ELSE "alive=false",
                              <<st.processes[i].pid>>)]
    /\ cli_exit' = "ok"
    /\ cli_pc' = "done"
    /\ UNCHANGED <<cli_cmd, cli_name, cli_st, cli_prev, alive, signals, fs_dir, fs_data>>
    /\ CliFrame

\* `sh -c` may leave a descendant in the group of the process it was
\* spawned as: the descendant of the process with pid 10 or 11 has that pid
\* plus 1000. Every other process is alone in the group it leads.
DescendantOf(leader) == leader + 1000
GroupOf(pid) == IF pid \in {DescendantOf(10), DescendantOf(11)} THEN pid - 1000 ELSE pid
GroupMembers(pgid) == {p \in alive : GroupOf(p) = pgid}

\* kill(pid, sig).is_ok(): the process, or for a negative pid the process
\* group, exists. A group is named by its leader and exists while one of its
\* members does; 0 is the caller's own group and -1 every process.
CanSignal(to) ==
    IF to \in {0, 0 - 1} THEN TRUE
    ELSE IF to < 0 THEN GroupMembers(0 - to) # {} ELSE to \in alive

\* manager.rs:219-228: SIGTERM to the group of every process of the state.
SignalPhaseUntilFailure(st) ==
    LET n == Len(st.processes)
        ok(i) == CanSignal(0 - st.processes[i].pgid)
        m == IF \A i \in 1..n : ok(i) THEN n
             ELSE CHOOSE i \in 1..n : ~ok(i) /\ \A k \in 1..(i - 1) : ok(k)
    IN [i \in 1..m |-> Sig("SIGTERM", 0 - st.processes[i].pgid)]
SignalPhase(st) ==
    [i \in 1..Len(st.processes) |-> Sig("SIGTERM", 0 - st.processes[i].pgid)]

\* manager.rs:232-241: the processes whose pid answers the probe.
EscalatedAll(st) == st.processes
Escalated(st) == SelectSeq(st.processes, LAMBDA p : CanSignal(p.pid))

\* manager.rs:257-272: the files stop removes.
RemovedPidOnly == {manager_pid}
Removed == {manager_pid, manager_lock}

\* stop_all, manager.rs:203-230: the state is loaded; without one the
\* command is over, with one every group is sent SIGTERM and the grace
\* period begins.
CliStop ==
    /\ cli_pc = "start"
    /\ cli_cmd = "stop"
    /\ LET ld == load_state_from_root
           st == ld.val
           n == Len(st.processes)
       IN IF NoStateFound(ld)
          THEN /\ cli_out' = NoDaemonState
               /\ cli_exit' = "ok"
               /\ cli_pc' = "done"
               /\ UNCHANGED <<signals, cli_st>>
          ELSE /\ signals' = signals \o SignalPhase(st)
               /\ cli_out' = <<Msg("Stopping", <<n, st.manager.pid>>)>>
                     \o [i \in 1..Len(SignalPhase(st)) |->
                           IF CanSignal(0 - st.processes[i].pgid)
                           THEN Msg("sent SIGTERM", st.processes[i].name)
                           ELSE Msg("already stopped or cannot signal",
                                    st.processes[i].name)]
                     \o <<Msg("Waiting", <<>>)>>
               /\ cli_st' = st
               /\ cli_pc' = "grace"
               /\ UNCHANGED cli_exit
    /\ UNCHANGED <<cli_cmd, cli_name, cli_prev, alive, fs_dir, fs_data>>
    /\ CliFrame

\* manager.rs:232-249: the SIGKILLs of the escalation loop, then ("Terminate
\* manager last") the manager's SIGTERM.
ManagerThenEscalation(kills, mgr) == <<Sig("SIGTERM", mgr)>> \o kills
EscalationThenManager(kills, mgr) == kills \o <<Sig("SIGTERM", mgr)>>

\* stop_all, manager.rs:232-249: the grace period is over; the groups of the
\* processes still alive are sent SIGKILL, the manager is sent SIGTERM.
CliStopEscalate ==
    /\ cli_pc = "grace"
    /\ LET esc == Escalated(cli_st)
       IN /\ signals' = signals \o EscalationThenManager(
                  [i \in 1..Len(esc) |-> Sig("SIGKILL", 0 - esc[i].pgid)],
                  cli_st.manager.pid)
          /\ alive' = alive \ UNION {GroupMembers(esc[i].pgid) : i \in 1..Len(esc)}
          /\ cli_out' = cli_out
                \o [i \in 1..Len(esc) |-> Msg("escalated SIGKILL", esc[i].name)]
                \o <<Msg("Stopping manager", <<cli_st.manager.pid>>)>>
    /\ cli_pc' = "mgr_wait"
    /\ UNCHANGED <<cli_cmd, cli_name, cli_exit, cli_st, cli_prev, fs_dir, fs_data>>
    /\ CliFrame

\* stop_all, manager.rs:250-283: 300ms later the manager, if alive, is sent
\* SIGKILL; manager.pid and manager.lock are removed; the result is printed.
CliStopFinish ==
    /\ cli_pc = "mgr_wait"
    /\ LET mgr == cli_st.manager.pid
           removed == Removed \cap DOMAIN fs_dir
           killed == Cardinality({k \in 1..Len(cli_out) :
                                     cli_out[k].text = "escalated SIGKILL"})
       IN /\ signals' = signals \o (IF CanSignal(mgr) THEN <<Sig("SIGKILL", mgr)>>
                                    ELSE <<>>)
          /\ alive' = alive \ {mgr}
          /\ fs_dir' = Unbind(fs_dir, removed)
          /\ cli_out' = cli_out \o <<Msg("Stop complete.", <<killed>>)>>
                          \o (IF removed = {} THEN <<>>
                              ELSE <<Msg("State cleaned up", removed)>>)
    /\ cli_exit' = "ok"
    /\ cli_pc' = "done"
    /\ UNCHANGED <<cli_cmd, cli_name, cli_st, cli_prev, fs_data>>
    /\ CliFrame

\* While stop sleeps, a process ends (the SIGTERM it was sent, its own end).
ProcessEnds ==
    /\ cli_pc \in {"grace", "mgr_wait"}
    /\ \E pid \in alive : alive' = alive \ {pid}
    /\ UNCHANGED <<cliVars, signals, fs_dir, fs_data>>
    /\ CliFrame

\* The next command is typed (main.rs:135-157).
CliAgain ==
    /\ cli_pc = "done"
    /\ Len(cli_prev) < MaxRuns - 1
    /\ cli_prev' = Append(cli_prev, cli_cmd)
    /\ cli_cmd' \in {"status", "stop", "logs"}
    /\ cli_name' = <<>>
    /\ cli_out' = <<>>
    /\ cli_exit' = "none"
    /\ cli_st' = NoState
    /\ cli_pc' = "start"
    /\ UNCHANGED <<alive, signals, fs_dir, fs_data>>
    /\ CliFrame

\* print_logs, manager.rs:290-321, without --follow.
CliLogs ==
    /\ cli_pc = "start"
    /\ cli_cmd = "logs"
    /\ LET ld == load_state_from_root
           st == ld.val
           selected == SelectSeq(st.processes,
                          LAMBDA p : cli_name = <<>> \/ cli_name[1] = p.name)
       IN cli_out' =
            IF NoStateFound(ld) THEN NoDaemonState
            ELSE IF selected = <<>> THEN <<Msg("No matching processes.", <<>>)>>
            ELSE [i \in 1..Len(selected) |-> Msg("tail", selected[i].name)]
    /\ cli_exit' = "ok"
    /\ cli_pc' = "done"
    /\ UNCHANGED <<cli_cmd, cli_name, cli_st, cli_prev, alive, signals, fs_dir, fs_data>>
    /\ CliFrame

\* What the commands may find in state.json: a saved state, or a text that
\* is not one (empty, cut short, a value of the wrong kind).
\* The saved states are the daemon's: a process leads its group.
CliStates == {OldState} \cup {s \in States : /\ Len(s.processes) = 2
                                              /\ s.processes[1] # s.processes[2]
                                              /\ \A i \in 1..2 :
                                                   s.processes[i].pgid = s.processes[i].pid
                                              /\ s.manager.version = 1}

Corrupt ==
    {<<>>,
     SubSeq(to_writer_pretty(OldState), 1, 7),
     Front(to_writer_pretty(OldState)),
     [to_writer_pretty(OldState) EXCEPT ![4] = Str(<<"x">>)],
     [to_writer_pretty(OldState) EXCEPT ![6] = Tok("str", <<"\"">>)]}

PidsOf(st) == {st.manager.pid} \cup {st.processes[i].pid : i \in 1..Len(st.processes)}

CliInit ==
    /\ cli_pc = "start"
    /\ cli_cmd \in {"status", "stop", "logs"}
    /\ cli_name \in {<<>>, << <<"w">> >>}
    /\ cli_name # <<>> => cli_cmd = "logs"
    /\ cli_out = <<>>
    /\ cli_exit = "none"
    /\ cli_st = NoState
    /\ cli_prev = <<>>
    /\ signals = <<>>
    /\ \E others \in SUBSET {manager_pid, manager_lock} :
         \/ /\ fs_data = <<>>
            /\ fs_dir = [x \in others |-> 0]
            /\ alive \in SUBSET PidsOf(OldState)
         \/ \E text \in Corrupt :
              /\ fs_data = <<text>>
              /\ fs_dir = [x \in others \cup {state_file} |->
                              IF x = state_file THEN 1 ELSE 0]
              /\ alive \in SUBSET PidsOf(OldState)
         \/ \E st \in CliStates :
              /\ fs_data = <<to_writer_pretty(st)>>
              /\ fs_dir = [x \in others \cup {state_file} |->
                              IF x = state_file THEN 1 ELSE 0]
              /\ alive \in SUBSET PidsOf(st)

\* stop, for a state the daemon saved, with descendants of its processes
\* alive or not.
GroupsInit ==
    /\ cli_pc = "start"
    /\ cli_cmd = "stop"
    /\ cli_name = <<>>
    /\ cli_out = <<>>
    /\ cli_exit = "none"
    /\ cli_st = NoState
    /\ cli_prev = <<>>
    /\ signals = <<>>
    /\ \E st \in CliStates \ {OldState} :
         /\ fs_data = <<to_writer_pretty(st)>>
         /\ fs_dir = [x \in {manager_pid, manager_lock, state_file} |->
                         IF x = state_file THEN 1 ELSE 0]
         /\ alive \in SUBSET (PidsOf(st)
                \cup {DescendantOf(st.processes[i].pid) : i \in 1..Len(st.processes)})

CliNext ==
    \/ CliStatus
    \/ CliStop
    \/ CliStopEscalate
    \/ CliStopFinish
    \/ CliLogs
    \/ ProcessEnds
    \/ CliAgain

(***************************************************************************)
(* ProcessSupervisor: run_manager_daemon.                                  *)
(***************************************************************************)
ProcessConfig(name, command, cwd) ==
    [name |-> name, command |-> command, cwd |-> cwd,
     stdout_log |-> <<>>, stderr_log |-> <<>>]

NoSupErr == [kind |-> "none", name |-> <<>>, path |-> <<>>]
\* "Process '{}' cwd does not exist: {}"
ErrProcCwd(name, abs) == [kind |-> "cwd", name |-> name, path |-> abs]
\* cmd.spawn()?
ErrSpawn == [kind |-> "spawn", name |-> <<>>, path |-> <<>>]

\* The text of a configured cwd.
CwdText(cwd) == (IF cwd[1].abs THEN <<"/">> ELSE <<>>) \o cwd[1].comps

\* One turn of `for config in configs`, manager.rs:27-119: the cwd is
\* checked, then the command is spawned in a session of its own and
\* described in proc_infos. A process spawned in an earlier turn is not
\* killed when a later turn returns the error: the Child is dropped, the
\* process runs on.
SupSpawnNext ==
    /\ sup_pc = "loop"
    /\ sup_i <= Len(configs)
    /\ LET config == configs[sup_i]
           pid == next_pid
       IN IF config.cwd # <<>> /\ ~PathExists(ResolveCwd(config.cwd))
          THEN /\ sup_pc' = "failed"
               /\ sup_err' = ErrProcCwd(config.name, ResolveCwd(config.cwd))
               /\ UNCHANGED <<sup_i, sup_children, proc_infos, next_pid, alive>>
          ELSE \E spawned \in BOOLEAN :
                 IF ~spawned
                 THEN /\ sup_pc' = "failed"
                      /\ sup_err' = ErrSpawn
                      /\ UNCHANGED <<sup_i, sup_children, proc_infos, next_pid, alive>>
                 ELSE /\ alive' = alive \cup {pid}
                      /\ sup_children' = Append(sup_children, pid)
                      /\ proc_infos' = Append(proc_infos,
                            ProcessInfo(config.name, pid, pid, config.command,
                                IF config.cwd = <<>> THEN <<>>
                                ELSE <<CwdText(config.cwd)>>,
                                IF config.stdout_log = <<>>
                                THEN config.name \o <<".out.log">>
                                ELSE config.stdout_log[1],
                                IF config.stderr_log = <<>>
                                THEN config.name \o <<".err.log">>
                                ELSE config.stderr_log[1],
                                DateTime(sup_i, 0)))
                      /\ next_pid' = next_pid + 1
                      /\ sup_i' = sup_i + 1
                      /\ UNCHANGED <<sup_pc, sup_err>>
    /\ UNCHANGED <<configs, manager_self, sup_sigs, signals, fs_dir, fs_data,
                   sv_pc, sv_state, sv_pos, sv_ino>>
    /\ SupFrame

\* manager.rs:121-129: the state the supervisor builds once the loop is
\* over.
BuiltStateWithoutProcesses ==
    ManagerState(ManagerInfo(manager_self, DateTime(sup_i, 0), ProjectRoot, 1), <<>>)
BuiltState ==
    ManagerState(ManagerInfo(manager_self, DateTime(sup_i, 0), ProjectRoot, 1),
                 proc_infos)

\* manager.rs:121-130: the loop is over, the state is built and save_state
\* is called.
SupSaveState ==
    /\ sup_pc = "loop"
    /\ sup_i > Len(configs)
    /\ sv_state' = BuiltState
    /\ sv_pc' = "create"
    /\ sup_pc' = "saving"
    /\ UNCHANGED <<configs, sup_i, sup_children, proc_infos, sup_err, next_pid,
                   manager_self, sup_sigs, alive, signals, fs_dir, fs_data,
                   sv_pos, sv_ino>>
    /\ SupFrame

\* save_state has returned: the supervisor goes on to wait for its
\* sup_children and for signals, manager.rs:132-143.
SupSaved ==
    /\ sup_pc = "saving"
    /\ sv_pc = "done"
    /\ sup_pc' = "serving"
    /\ UNCHANGED <<configs, sup_i, sup_children, proc_infos, sup_err, next_pid,
                   manager_self, sup_sigs, alive, signals, fs_dir, fs_data,
                   sv_pc, sv_state, sv_pos, sv_ino>>
    /\ SupFrame

\* join_all(handles) is complete: the pipes of every child are at end of
\* file, which they are once the child has exited.
Drained == \A i \in 1..Len(sup_children) : sup_children[i] \notin alive

\* manager.rs:133-134: the signal streams are created. Until then a SIGTERM
\* or SIGINT has its default effect on the daemon; from here on it is kept
\* for the stream.
SupSignalStreams ==
    /\ sup_pc = "serving"
    /\ sup_pc' = "waiting"
    /\ UNCHANGED <<configs, sup_i, sup_children, proc_infos, sup_err, next_pid,
                   manager_self, sup_sigs, alive, signals, fs_dir, fs_data,
                   sv_pc, sv_state, sv_pos, sv_ino>>
    /\ SupFrame

\* The join_all branch of select!, manager.rs:137-140: the supervisor parks
\* on sigterm.recv().
AfterJoinAllShutsDown == "shutdown"
AfterJoinAll == "parked"

\* select!, manager.rs:136-143: one of the branches that are ready is taken;
\* `joined` says whether join_all(handles) is.
Select(joined) ==
    /\ sup_pc = "waiting"
    /\ \/ /\ joined
          /\ sup_pc' = AfterJoinAll
          /\ UNCHANGED sup_sigs
       \/ \E s \in sup_sigs :
            /\ sup_pc' = "shutdown"
            /\ sup_sigs' = sup_sigs \ {s}
    /\ UNCHANGED <<configs, sup_i, sup_children, proc_infos, sup_err, next_pid,
                   manager_self, alive, signals, fs_dir, fs_data,
                   sv_pc, sv_state, sv_pos, sv_ino>>
    /\ SupFrame

SupSelect == Select(Drained)

\* manager.rs:139: sigterm.recv().await inside the join_all branch.
ParkedWakesOnSigint(sigs) == "SIGINT" \in sigs
ParkedWakes(sigs) == "SIGTERM" \in sigs

SupParked ==
    /\ sup_pc = "parked"
    /\ ParkedWakes(sup_sigs)
    /\ sup_pc' = "shutdown"
    /\ sup_sigs' = sup_sigs \ {"SIGTERM"}
    /\ UNCHANGED <<configs, sup_i, sup_children, proc_infos, sup_err, next_pid,
                   manager_self, alive, signals, fs_dir, fs_data,
                   sv_pc, sv_state, sv_pos, sv_ino>>
    /\ SupFrame

\* manager.rs:146-154: SIGTERM to the group of every child, then the sleep.
\* A Child that was never waited for still has its id; its group is its pid
\* (setsid in pre_exec).
SupShutdownTerm ==
    /\ sup_pc = "shutdown"
    /\ signals' = signals \o [i \in 1..Len(sup_children) |->
                                Sig("SIGTERM", 0 - sup_children[i])]
    /\ sup_pc' = "sleeping"
    /\ UNCHANGED <<configs, sup_i, sup_children, proc_infos, sup_err, next_pid,
                   manager_self, sup_sigs, alive, fs_dir, fs_data,
                   sv_pc, sv_state, sv_pos, sv_ino>>
    /\ SupFrame

\* manager.rs:155-164: after the sleep, SIGKILL to the group of every child,
\* then Ok(()): the daemon exits.
SupShutdownKill ==
    /\ sup_pc = "sleeping"
    /\ signals' = signals \o [i \in 1..Len(sup_children) |->
                                Sig("SIGKILL", 0 - sup_children[i])]
    /\ alive' = alive \ ({sup_children[i] : i \in 1..Len(sup_children)}
                            \cup {manager_self})
    /\ sup_pc' = "exited"
    /\ UNCHANGED <<configs, sup_i, sup_children, proc_infos, sup_err, next_pid,
                   manager_self, sup_sigs, fs_dir, fs_data,
                   sv_pc, sv_state, sv_pos, sv_ino>>
    /\ SupFrame

\* A child ends, of itself or because of a SIGTERM.
ChildExit ==
    /\ \E i \in 1..Len(sup_children) :
         /\ sup_children[i] \in alive
         /\ alive' = alive \ {sup_children[i]}
    /\ UNCHANGED <<supVars, signals, fs_dir, fs_data, sv_pc, sv_state, sv_pos, sv_ino>>
    /\ SupFrame

\* Someone sends SIGTERM or SIGINT to the daemon. Before the signal streams
\* exist the signal ends the daemon, in the middle of whatever it does.
SigArrives ==
    /\ manager_self \in alive
    /\ sup_pc \notin {"failed", "exited", "killed"}
    /\ \E s \in {"SIGTERM", "SIGINT"} :
         IF sup_pc \in {"loop", "saving", "serving"}
         THEN /\ sup_pc' = "killed"
              /\ alive' = alive \ {manager_self}
              /\ sv_pc' = IF sv_pc \in {"create", "write", "rename"}
                          THEN "killed" ELSE sv_pc
              /\ sup_sigs' = {s}
         ELSE /\ s \notin sup_sigs
              /\ sup_sigs' = sup_sigs \cup {s}
              /\ UNCHANGED <<sup_pc, alive, sv_pc>>
    /\ UNCHANGED <<configs, sup_i, sup_children, proc_infos, sup_err, next_pid,
                   manager_self, signals, fs_dir, fs_data, sv_state, sv_pos, sv_ino>>
    /\ SupFrame

\* Bound: the number of configured processes.
MaxConfigs == 3

\* What a process may declare as cwd.
CwdChoices ==
    {<<>>, RelCwd(<<"sub">>), RelCwd(<<"nodir">>), AbsCwd(<<"gone">>)}

ConfigName(i) == <<"p", DigitChars[i + 1]>>

SupInit ==
    /\ \E n \in 1..MaxConfigs : \E cwds \in [1..n -> CwdChoices] :
         configs = [i \in 1..n |-> ProcessConfig(ConfigName(i), <<"r", "u", "n">>,
                                                  cwds[i])]
    /\ sup_pc = "loop"
    /\ sup_i = 1
    /\ sup_children = <<>>
    /\ proc_infos = <<>>
    /\ sup_err = NoSupErr
    /\ manager_self = 50
    /\ sup_sigs = {}
    /\ next_pid = 51
    /\ alive = {50}
    /\ signals = <<>>
    /\ \E old \in BOOLEAN :
         /\ fs_data = IF old THEN <<to_writer_pretty(OldState)>> ELSE <<>>
         /\ fs_dir = [x \in {manager_pid, manager_lock}
                              \cup (IF old THEN {state_file} ELSE {}) |->
                         IF x = state_file THEN 1 ELSE 0]
    /\ sv_pc = "idle"
    /\ sv_state = NoState
    /\ sv_pos = 0
    /\ sv_ino = 0

\* The steps of the daemon itself.
SupSteps ==
    \/ SupSpawnNext
    \/ SupSaveState
    \/ SaveCreate
    \/ SaveWrite
    \/ SaveRename
    \/ SupSaved
    \/ SupSignalStreams
    \/ SupSelect
    \/ SupParked
    \/ SupShutdownTerm
    \/ SupShutdownKill

SupNext ==
    \/ SupSteps
    \/ ChildExit
    \/ SigArrives

(***************************************************************************)
(* start: start_daemon (daemon.rs:18-72), several calls at a time, and a   *)
(* stop beside them.                                                       *)
(***************************************************************************)
\* Bound: the number of calls of start_daemon.
NStarts == 2

\* The pids the daemon of a call and the process it supervises get.
DaemonPid(s) == 60 + s
ChildPid(s) == 70 + s

\* str::parse::<i32>: an optional sign, then digits, within the range.
parse_i32(s) ==
    LET signed == s # <<>> /\ Head(s) \in {"-", "+"}
        neg == s # <<>> /\ Head(s) = "-"
        ds == IF signed THEN Tail(s) ELSE s
        nz == {i \in 1..Len(ds) : ds[i] # "0"}
        sig == IF nz = {} THEN <<>>
               ELSE SubSeq(ds, CHOOSE i \in nz : \A k \in nz : i <= k, Len(ds))
        fits == \/ Len(sig) < 10
                \/ /\ Len(sig) = 10
                   /\ \/ DigitsNat(SubSeq(sig, 1, 9)) < 214748364
                      \/ /\ DigitsNat(SubSeq(sig, 1, 9)) = 214748364
                         /\ DigitVal(sig[10]) <= (IF neg THEN 8 ELSE 7)
    IN IF AllDigits(ds) /\ fits
       THEN [ok |-> TRUE, val |-> IF neg THEN 0 - DigitsNat(sig) ELSE DigitsNat(sig)]
       ELSE [ok |-> FALSE, val |-> 0]

\* cleanup_stale_state_if_any, state.rs:98-123: what it returns. A text
\* with the byte 0xFF in it is not UTF-8: read_to_string fails.
cleanup_whenever_pid_file_parses ==
    /\ manager_pid \in DOMAIN fs_dir
    /\ parse_i32(TrimEnd(TrimStart(fs_data[fs_dir[manager_pid]]))).ok
cleanup_stale_state_if_any ==
    IF manager_pid \notin DOMAIN fs_dir THEN FALSE
    ELSE LET pid_str == fs_data[fs_dir[manager_pid]]
             pid == parse_i32(TrimEnd(TrimStart(pid_str)))
         IN IF \E i \in 1..Len(pid_str) : pid_str[i] = "0xFF" THEN FALSE
            ELSE IF ~pid.ok THEN FALSE
            ELSE ~CanSignal(pid.val)

\* The process that runs call s is there: the command until it has
\* daemonized, the daemon from then on.
ProcAlive(s) ==
    \/ starts[s].pc \in {"cleanup", "open", "lock", "daemonize"}
    \/ starts[s].pc \in {"manager", "serving"} /\ DaemonPid(s) \in alive

\* lock_file.try_lock_exclusive(), daemon.rs:34: flock on the file that is
\* open, refused while a live process holds a lock on that file.
try_lock_exclusive(s) ==
    ~\E t \in DOMAIN starts \ {s} :
        ProcAlive(t) /\ starts[t].locked /\ starts[t].lock = starts[s].lock

\* A daemon started by another call is alive and holds the lock it took.
OtherDaemonLocked(s) ==
    \E t \in DOMAIN starts \ {s} :
        /\ starts[t].pc \in {"manager", "serving"}
        /\ DaemonPid(t) \in alive
        /\ starts[t].locked

\* daemon.rs:20-25: the state directory is made, a stale manager.pid removed.
StartCleanup(s) ==
    /\ starts[s].pc = "cleanup"
    /\ fs_dir' = IF cleanup_stale_state_if_any THEN Unbind(fs_dir, {manager_pid})
                 ELSE fs_dir
    /\ starts' = [starts EXCEPT ![s].pc = "open",
                                ![s].cleaned = <<cleanup_stale_state_if_any>>,
                                ![s].entry = OtherDaemonLocked(s)]
    /\ UNCHANGED <<fs_data, alive>>
    /\ StartFrame

\* daemon.rs:28-33: manager.lock is opened, and created if it is not there.
StartOpenLock(s) ==
    /\ starts[s].pc = "open"
    /\ IF manager_lock \in DOMAIN fs_dir
       THEN /\ starts' = [starts EXCEPT ![s].pc = "lock",
                                        ![s].lock = fs_dir[manager_lock]]
            /\ UNCHANGED <<fs_dir, fs_data>>
       ELSE /\ fs_data' = Append(fs_data, <<>>)
            /\ fs_dir' = Bind(fs_dir, manager_lock, Len(fs_data) + 1)
            /\ starts' = [starts EXCEPT ![s].pc = "lock",
                                        ![s].lock = Len(fs_data) + 1]
    /\ UNCHANGED alive
    /\ StartFrame

\* daemon.rs:34-39: the lock is taken, or start fails naming the lock.
StartTryLock(s) ==
    /\ starts[s].pc = "lock"
    /\ starts' = IF try_lock_exclusive(s)
                 THEN [starts EXCEPT ![s].pc = "daemonize", ![s].locked = TRUE]
                 ELSE [starts EXCEPT ![s].pc = "failed", ![s].lock = 0,
                          ![s].err = "Another oxproc daemon seems to be running (lock held at manager.lock)."]
    /\ UNCHANGED <<fs_dir, fs_data, alive>>
    /\ StartFrame

\* daemon.rs:41-57, Daemonize::start with pid_file(manager.pid): the pid
\* file is opened (created if it is not there) and locked, the process
\* forks, the daemon writes its pid into the file and keeps the lock file
\* and the pid file open. The pid file locked by a live daemon: start fails.
StartDaemonize(s) ==
    /\ starts[s].pc = "daemonize"
    /\ LET there == manager_pid \in DOMAIN fs_dir
           f == IF there THEN fs_dir[manager_pid] ELSE Len(fs_data) + 1
           files == IF there THEN fs_data ELSE Append(fs_data, <<>>)
       IN IF \E t \in DOMAIN starts \ {s} : ProcAlive(t) /\ starts[t].pidf = f
          THEN /\ starts' = [starts EXCEPT ![s].pc = "failed", ![s].lock = 0,
                                ![s].locked = FALSE,
                                ![s].err = "Failed to daemonize"]
               /\ fs_data' = files
               /\ UNCHANGED alive
          ELSE /\ starts' = [starts EXCEPT ![s].pc = "manager", ![s].pidf = f]
               /\ fs_data' = [files EXCEPT ![f] = NatDigits(DaemonPid(s))]
               /\ alive' = alive \cup {DaemonPid(s)}
          \* either way the file has its name
    /\ fs_dir' = IF manager_pid \in DOMAIN fs_dir THEN fs_dir
                 ELSE Bind(fs_dir, manager_pid, Len(fs_data) + 1)
    /\ StartFrame

\* daemon.rs:60-64: the daemon runs run_manager_daemon (manager.rs:18-134)
\* for one configured process: the process is spawned, the state saved.
StartRunManager(s) ==
    /\ starts[s].pc = "manager"
    /\ DaemonPid(s) \in alive
    /\ alive' = alive \cup {ChildPid(s)}
    /\ fs_data' = Append(fs_data, to_writer_pretty(ManagerState(
            ManagerInfo(DaemonPid(s), DateTime(s, 0), ProjectRoot, 1),
            <<ProcessInfo(<<"w">>, ChildPid(s), ChildPid(s), <<"r", "u", "n">>,
                          <<>>, <<"w", ".out.log">>, <<"w", ".err.log">>,
                          DateTime(s, 0))>>)))
    /\ fs_dir' = Bind(fs_dir, state_file, Len(fs_data) + 1)
    /\ starts' = [starts EXCEPT ![s].pc = "serving"]
    /\ StartFrame

\* What an earlier run may have left in manager.pid.
PidTexts ==
    {<<"3">>, <<" ", "3", "\n">>, <<"8">>, <<>>, <<"x">>, <<"+", "3">>,
     <<"0", "0", "3">>, <<"0">>, <<"-", "3">>, <<"3", "0xFF">>,
     <<"3", "0", "0", "0", "0", "0", "0", "0", "0", "0", "0">>}

\* The calls of start and one stop are about to run, in a state directory
\* that is new or that earlier runs have left: their state.json, perhaps
\* their manager.lock and manager.pid. Pid 8 is a process of someone else.
StartInit ==
    /\ starts = [s \in 1..NStarts |->
                    [pc |-> "cleanup", cleaned |-> <<>>, lock |-> 0,
                     locked |-> FALSE, pidf |-> 0, err |-> "none",
                     entry |-> FALSE]]
    /\ alive \in SUBSET {8}
    /\ signals = <<>>
    /\ \/ fs_dir = <<>> /\ fs_data = <<>>
       \/ \E lock \in BOOLEAN :
            \/ /\ fs_data = <<to_writer_pretty(OldState), <<>> >>
               /\ fs_dir = [x \in {state_file} \cup (IF lock THEN {manager_lock} ELSE {})
                               |-> IF x = state_file THEN 1 ELSE 2]
            \/ \E text \in PidTexts :
                 /\ fs_data = <<to_writer_pretty(OldState), <<>>, text>>
                 /\ fs_dir = [x \in {state_file, manager_pid}
                                      \cup (IF lock THEN {manager_lock} ELSE {})
                                 |-> IF x = state_file THEN 1
                                     ELSE IF x = manager_lock THEN 2 ELSE 3]
    /\ cli_pc = "start"
    /\ cli_cmd = "stop"
    /\ cli_name = <<>>
    /\ cli_out = <<>>
    /\ cli_exit = "none"
    /\ cli_st = NoState
    /\ cli_prev = <<>>

StartNext ==
    \/ \E s \in DOMAIN starts : StartCleanup(s)
    \/ \E s \in DOMAIN starts : StartOpenLock(s)
    \/ \E s \in DOMAIN starts : StartTryLock(s)
    \/ \E s \in DOMAIN starts : StartDaemonize(s)
    \/ \E s \in DOMAIN starts : StartRunManager(s)
    \/ CliStop
    \/ CliStopEscalate
    \/ CliStopFinish
    \/ ProcessEnds

(***************************************************************************)
(* LogReader: follow_file (manager.rs:465-515), beside a writer of the     *)
(* file. The file is a sequence of bytes as in tail_last_lines; the        *)
(* writer appends to it and may truncate it.                               *)
(***************************************************************************)
\* Bounds of the follow model: the length of the file, the bytes one write
\* appends, the truncations. manager.rs:491 reads into 8192 bytes; the model
\* scales that down.
MaxFollowLen == 3
MaxAppend == 2
MaxTruncs == 1
FollowBuf == 2

\* manager.rs:480, `if retries > 40`, and manager.rs:483, the 250 ms sleep.
FollowRetries == 40
RetrySleepMs == 250

\* manager.rs:480: the loop gives up.
GivesUpAtLimit(retries) == retries >= FollowRetries
GivesUp(retries) == retries > FollowRetries

\* The `prefix` argument, as logs_follow makes it for the process "w".
FollowPrefix == <<"[", "w", "]", " ">>

\* manager.rs:509-513: the lines that the while loop sends and what it
\* leaves in `partial`, for the text `partial` now holds.
SentLines(text) ==
    LET parts == split_nl(text)
    IN [i \in 1..(Len(parts) - 1) |-> FollowPrefix \o parts[i]]
LeftPartial(text) ==
    LET parts == split_nl(text) IN parts[Len(parts)]

\* f.read(&mut buf), manager.rs:495: the bytes from the position on, as many
\* as the buffer takes; none at or beyond the end of the file.
FollowReadBytes ==
    IF fl_pos >= Len(fl_file) THEN <<>>
    ELSE SubSeq(fl_file, fl_pos + 1,
                IF fl_pos + FollowBuf < Len(fl_file) THEN fl_pos + FollowBuf
                ELSE Len(fl_file))

\* manager.rs:499: `len < pos` tells a truncation.
Truncated(len, pos) == len < pos

\* manager.rs:507: the chunk is decoded on its own and pushed to `partial`.
PushChunk(partial, bytes) == partial \o from_utf8_lossy(bytes)

FollowInit ==
    /\ fl_exists \in BOOLEAN
    /\ fl_file = <<>>
    /\ fl_pc = "wait"
    /\ fl_retries = 0
    /\ fl_pos = 0
    /\ fl_partial = <<>>
    /\ fl_sent = <<>>
    /\ fl_start = 0
    /\ fl_truncs = 0
    /\ fl_mark = 0
    /\ fl_settled = FALSE

FollowIdle ==
    /\ fl_exists = FALSE
    /\ fl_file = <<>>
    /\ fl_pc = "idle"
    /\ fl_retries = 0
    /\ fl_pos = 0
    /\ fl_partial = <<>>
    /\ fl_sent = <<>>
    /\ fl_start = 0
    /\ fl_truncs = 0
    /\ fl_mark = 0
    /\ fl_settled = FALSE

\* manager.rs:475-485: one turn of the loop that waits for the file. After
\* the break `retries` is not read again: it is kept as 0.
FollowWait ==
    /\ fl_pc = "wait"
    /\ IF fl_exists
       THEN fl_pc' = "open" /\ fl_retries' = 0
       ELSE IF GivesUp(fl_retries)
       THEN fl_pc' = "done" /\ UNCHANGED fl_retries
       ELSE fl_pc' = "wait" /\ fl_retries' = fl_retries + 1
    /\ UNCHANGED <<fl_exists, fl_file, fl_pos, fl_partial, fl_sent, fl_start,
                   fl_truncs, fl_mark, fl_settled>>
    /\ FollowFrame

\* manager.rs:487-492: the file is opened and the position set to its end.
FollowOpen ==
    /\ fl_pc = "open"
    /\ fl_pos' = Len(fl_file)
    /\ fl_start' = Len(fl_file)
    /\ fl_pc' = "read"
    /\ UNCHANGED <<fl_exists, fl_file, fl_retries, fl_partial, fl_sent, fl_truncs,
                   fl_mark, fl_settled>>
    /\ FollowFrame

\* manager.rs:495-513: one read. Nothing read: on to the sleep. Otherwise
\* the position advances and the complete lines are sent.
FollowRead ==
    /\ fl_pc = "read"
    /\ LET bytes == FollowReadBytes
           text == PushChunk(fl_partial, bytes)
       IN IF bytes = <<>>
          THEN /\ fl_pc' = "sleep"
               /\ UNCHANGED <<fl_pos, fl_partial, fl_sent>>
          ELSE /\ fl_pc' = "read"
               /\ fl_pos' = fl_pos + Len(bytes)
               /\ fl_sent' = fl_sent \o SentLines(text)
               /\ fl_partial' = LeftPartial(text)
    /\ fl_settled' = FALSE
    /\ UNCHANGED <<fl_exists, fl_file, fl_retries, fl_start, fl_truncs, fl_mark>>
    /\ FollowFrame

\* manager.rs:497-503: after the sleep the length is compared with the
\* position, and the position set to the end of a file that has shrunk.
FollowCheck ==
    /\ fl_pc = "sleep"
    /\ fl_pos' = IF Truncated(Len(fl_file), fl_pos) THEN Len(fl_file) ELSE fl_pos
    /\ fl_pc' = "read"
    /\ fl_settled' = (fl_pos' = Len(fl_file))
    /\ UNCHANGED <<fl_exists, fl_file, fl_retries, fl_partial, fl_sent, fl_start,
                   fl_truncs, fl_mark>>
    /\ FollowFrame

\* The writer creates the file.
FileCreate ==
    /\ ~fl_exists
    /\ fl_exists' = TRUE
    /\ UNCHANGED <<fl_file, fl_pc, fl_retries, fl_pos, fl_partial, fl_sent, fl_start,
                   fl_truncs, fl_mark, fl_settled>>
    /\ FollowFrame

\* The writer appends some bytes with one write.
FileAppend ==
    /\ fl_exists
    /\ \E bs \in SeqsUpTo(Bytes, MaxAppend) \ {<<>>} :
         /\ Len(fl_file) + Len(bs) <= MaxFollowLen
         /\ fl_file' = fl_file \o bs
    /\ fl_settled' = FALSE
    /\ UNCHANGED <<fl_exists, fl_pc, fl_retries, fl_pos, fl_partial, fl_sent, fl_start,
                   fl_truncs, fl_mark>>
    /\ FollowFrame

\* The file is truncated to nothing while follow_file runs; what is written
\* from now on is the rewrite. fl_mark: the lines sent up to here.
FileTruncate ==
    /\ fl_exists
    /\ fl_pc \in {"read", "sleep"}
    /\ fl_truncs < MaxTruncs
    /\ fl_file # <<>>
    /\ fl_file' = <<>>
    /\ fl_truncs' = fl_truncs + 1
    /\ fl_mark' = Len(fl_sent)
    /\ fl_settled' = FALSE
    /\ UNCHANGED <<fl_exists, fl_pc, fl_retries, fl_pos, fl_partial, fl_sent, fl_start>>
    /\ FollowFrame

FollowNext ==
    \/ FollowWait
    \/ FollowOpen
    \/ FollowRead
    \/ FollowCheck
    \/ FileCreate
    \/ FileAppend
    \/ FileTruncate

(***************************************************************************)
(* StateStore: wait_for_manager_ready (state.rs:125-155), beside a daemon   *)
(* that saves its state.                                                   *)
(***************************************************************************)
\* Bounds: the timeout and the time that passes, in periods of the sleep.
MaxTimeout == 2
MaxTicks == 3

\* state.rs:136-141: the file read makes the manager ready.
ConsiderReadyWhenParsed(ld) == ld.ok
ConsiderReady(ld) == ld.ok /\ ld.val.manager.project_root # <<>>

\* What the daemon saves: a state with or without processes, and one whose
\* project_root is empty.
WaitStates ==
    {ManagerState(ManagerInfo(7, DateTime(0, 0), root, 1), ps) :
        root \in {<<>>, <<"/", "p">>},
        ps \in {<<>>, OldState.processes}}

\* What state.json holds when the wait begins: nothing, the state of an
\* earlier run, a state with an empty project_root, or no state at all.
WaitInit ==
    /\ wr_pc = "check"
    /\ wr_timeout \in 0..MaxTimeout
    /\ wr_elapsed = 0
    /\ wr_polls = <<>>
    /\ wr_last_err = <<>>
    /\ sv_state \in WaitStates
    /\ sv_pc \in {"create", "idle"}
    /\ sv_pos = 0
    /\ sv_ino = 0
    /\ \/ fs_dir = <<>> /\ fs_data = <<>>
       \/ /\ fs_dir = (state_file :> 1)
          /\ \E text \in {to_writer_pretty(OldState), Front(to_writer_pretty(OldState)),
                           <<>>,
                           to_writer_pretty(ManagerState(
                               ManagerInfo(3, DateTime(1, 0), <<>>, 1), <<>>))} :
                fs_data = <<text>>

WaitIdle ==
    /\ wr_pc = "idle"
    /\ wr_timeout = 0
    /\ wr_elapsed = 0
    /\ wr_polls = <<>>
    /\ wr_last_err = <<>>

\* state.rs:133: the loop condition; past the loop, the timeout error
\* (state.rs:150-154).
WaitCheck ==
    /\ wr_pc = "check"
    /\ wr_pc' = IF wr_elapsed < wr_timeout THEN "read" ELSE "err"
    /\ UNCHANGED <<wr_timeout, wr_elapsed, wr_polls, wr_last_err>>
    /\ WaitFrame

\* state.rs:134-146: state.json is read and parsed; a state with a
\* project_root returns Ok(()), a read error is kept in last_err.
WaitPoll ==
    /\ wr_pc = "read"
    /\ LET ld == load_state_from_root
       IN /\ wr_polls' = Append(wr_polls, ld)
          /\ wr_last_err' = IF ld.err = "io" THEN <<"io">> ELSE wr_last_err
          /\ wr_pc' = IF ConsiderReady(ld) THEN "ok" ELSE "sleep"
    /\ UNCHANGED <<wr_timeout, wr_elapsed>>
    /\ WaitFrame

\* state.rs:147: the sleep of 200 ms, which may take longer.
WaitSleep ==
    /\ wr_pc = "sleep"
    /\ \E t \in (wr_elapsed + 1)..MaxTicks : wr_elapsed' = t
    /\ wr_pc' = "check"
    /\ UNCHANGED <<wr_timeout, wr_polls, wr_last_err>>
    /\ WaitFrame

WaitNext ==
    \/ WaitCheck
    \/ WaitPoll
    \/ WaitSleep
    \/ SaveCreate
    \/ SaveWrite
    \/ SaveRename

(***************************************************************************)
(* ProcessSupervisor: the tasks that drain the children's pipes,           *)
(* handle_output (manager.rs:167-200), spawned two per child               *)
(* (manager.rs:81-105), beside the supervisor from select! on.             *)
(***************************************************************************)
\* Bounds: the children, and the lines a child writes to one stream.
MaxDrainChildren == 1
MaxLines == 2

\* A line of valid UTF-8, and one that is not: next_line() gives
\* Err(InvalidData) for it.
ValidLine == "line"
InvalidLine == "not utf-8"

\* The streams of the spawned children: stdout and stderr of each.
Streams == (1..Len(sup_children)) \X {"out", "err"}

\* tokio::spawn(handle_output(..)): a panic of the task (the unwrap() of
\* manager.rs:183, 189 or 196) ends that task; its JoinHandle resolves to
\* an error.
PanicEndsEveryTask(pcs, d) == [x \in DOMAIN pcs |-> "panicked"]
TaskPanics(pcs, d) == [pcs EXCEPT ![d] = "panicked"]

\* The task is gone and its reader with it: the read end of the pipe is
\* closed, what was in the pipe is lost.
Panic(d) ==
    /\ dr_pc' = TaskPanics(dr_pc, d)
    /\ dr_pipe' = [dr_pipe EXCEPT ![d] = <<>>]
    /\ UNCHANGED <<dr_log, dr_after>>

SomePanicked == \E d \in DOMAIN dr_pc : dr_pc[d] = "panicked"

\* manager.rs:175-186: the log file is opened for append, created if need
\* be; a failure of the open panics.
DrainOpen(d) ==
    /\ manager_self \in alive
    /\ dr_pc[d] = "open"
    /\ \E opened \in BOOLEAN :
         IF opened
         THEN /\ dr_pc' = [dr_pc EXCEPT ![d] = "reading"]
              /\ UNCHANGED <<dr_pipe, dr_log, dr_after>>
         ELSE Panic(d)
    /\ UNCHANGED alive
    /\ DrainFrame

\* manager.rs:191-199: one turn of `while let Some(line) =
\* reader.next_line().await.unwrap()`. A line is appended to the log with
\* its newline; a read error or a failed write panics; at end of file, which
\* is when the child is gone and the pipe empty, the task returns.
DrainNextLine(d) ==
    /\ manager_self \in alive
    /\ dr_pc[d] = "reading"
    /\ IF dr_pipe[d] # <<>>
       THEN IF Head(dr_pipe[d]) = InvalidLine
            THEN Panic(d)
            ELSE \E written \in BOOLEAN :
                   IF written
                   THEN /\ dr_log' = [dr_log EXCEPT ![d] = Append(@, Head(dr_pipe[d]))]
                        /\ dr_pipe' = [dr_pipe EXCEPT ![d] = Tail(@)]
                        /\ dr_after' = IF SomePanicked THEN dr_after \cup {d}
                                       ELSE dr_after
                        /\ UNCHANGED dr_pc
                   ELSE Panic(d)
       ELSE /\ sup_children[d[1]] \notin alive
            /\ dr_pc' = [dr_pc EXCEPT ![d] = "done"]
            /\ UNCHANGED <<dr_pipe, dr_log, dr_after>>
    /\ UNCHANGED alive
    /\ DrainFrame

\* The child writes a line to one of its streams (Stdio::piped(),
\* manager.rs:46-47).
ChildWrites(d, line) ==
    /\ manager_self \in alive
    /\ sup_children[d[1]] \in alive
    /\ dr_pc[d] # "panicked"
    /\ Len(dr_log[d]) + Len(dr_pipe[d]) < MaxLines
    /\ dr_pipe' = [dr_pipe EXCEPT ![d] = Append(@, line)]
    /\ UNCHANGED <<dr_pc, dr_log, dr_after, alive>>
    /\ DrainFrame

\* The child writes to a stream whose read end is closed: SIGPIPE ends it.
ChildSigpipe(d) ==
    /\ sup_children[d[1]] \in alive
    /\ dr_pc[d] = "panicked"
    /\ alive' = alive \ {sup_children[d[1]]}
    /\ UNCHANGED drainVars
    /\ DrainFrame

\* join_all(handles), manager.rs:137: every handle has resolved, to the
\* task's return or to its panic.
JoinAllDone == \A d \in Streams : dr_pc[d] \in {"done", "panicked"}

DrainSelect == Select(JoinAllDone)

\* The steps of the supervisor itself from select! on.
DrainSupSteps ==
    \/ DrainSelect
    \/ SupParked
    \/ SupShutdownTerm
    \/ SupShutdownKill

\* The supervisor at select! (manager.rs:136), its children alive, the state
\* saved, the tasks spawned and none of them polled yet.
DrainInit ==
    /\ \E n \in 1..MaxDrainChildren :
         /\ configs = [i \in 1..n |-> ProcessConfig(ConfigName(i), <<"r", "u", "n">>,
                                                   <<>>)]
         /\ sup_children = [i \in 1..n |-> 50 + i]
         /\ proc_infos = [i \in 1..n |->
               ProcessInfo(ConfigName(i), 50 + i, 50 + i, <<"r", "u", "n">>, <<>>,
                           ConfigName(i) \o <<".out.log">>,
                           ConfigName(i) \o <<".err.log">>, DateTime(i, 0))]
         /\ sup_i = n + 1
         /\ next_pid = 51 + n
         /\ alive = 50..(50 + n)
    /\ sup_pc = "waiting"
    /\ sup_err = NoSupErr
    /\ manager_self = 50
    /\ sup_sigs = {}
    /\ signals = <<>>
    /\ sv_state = BuiltState
    /\ sv_pc = "done"
    /\ sv_pos = Len(to_writer_pretty(BuiltState))
    /\ sv_ino = 1
    /\ fs_data = <<to_writer_pretty(BuiltState)>>
    /\ fs_dir = [x \in {manager_pid, manager_lock, state_file} |->
                   IF x = state_file THEN 1 ELSE 0]
    /\ dr_pc = [d \in Streams |-> "open"]
    /\ dr_pipe = [d \in Streams |-> <<>>]
    /\ dr_log = [d \in Streams |-> <<>>]
    /\ dr_after = {}

DrainIdle ==
    /\ dr_pc = <<>>
    /\ dr_pipe = <<>>
    /\ dr_log = <<>>
    /\ dr_after = {}

DrainNext ==
    \/ \E d \in Streams : DrainOpen(d)
    \/ \E d \in Streams : DrainNextLine(d)
    \/ \E d \in Streams : \E line \in {ValidLine, InvalidLine} : ChildWrites(d, line)
    \/ \E d \in Streams : ChildSigpipe(d)
    \/ DrainSupSteps
    \/ ChildExit
    \/ SigArrives

(***************************************************************************)
(* LogSink: the log files of one process, written by handle_output         *)
(* (manager.rs:174-199) of one daemon after the other: start, stop, and    *)
(* restart, which is stop then start (main.rs:158-190).                    *)
(***************************************************************************)
\* Bounds: the daemons started one after the other, and the lines one of
\* them writes to one file.
MaxGens == 3
MaxLogLines == 2

LogStreams == {"out", "err"}

\* A line: the daemon under which it was written and its number.
LogLine(gen, k) == [gen |-> gen, k |-> k]

\* manager.rs:179-185: OpenOptions::new().create(true).append(true).open(path)
\* creates the file when there is none and leaves its content otherwise.
OpenTruncating(files, path) ==
    [x \in DOMAIN files \cup {path} |-> IF x = path THEN <<>> ELSE files[x]]
OpenAppend(files, path) ==
    [x \in DOMAIN files \cup {path} |-> IF x \in DOMAIN files THEN files[x] ELSE <<>>]

\* A write to a file opened with O_APPEND goes to the end of the file.
AppendWrite(content, line) == Append(content, line)

LogInit ==
    /\ lg_files = <<>>
    /\ lg_all = [s \in LogStreams |-> <<>>]
    /\ lg_gen = 0
    /\ lg_tasks = <<>>

LogIdle ==
    /\ lg_files = <<>>
    /\ lg_all = <<>>
    /\ lg_gen = 0
    /\ lg_tasks = <<>>

\* start: a daemon spawns the process and the two tasks (manager.rs:81-102).
LogStart ==
    /\ lg_tasks = <<>>
    /\ lg_gen < MaxGens
    /\ lg_gen' = lg_gen + 1
    /\ lg_tasks' = [s \in LogStreams |-> "open"]
    /\ UNCHANGED <<lg_files, lg_all>>
    /\ LogFrame

\* manager.rs:175-189: the task opens its log file.
LogOpen(s) ==
    /\ s \in DOMAIN lg_tasks
    /\ lg_tasks[s] = "open"
    /\ lg_files' = OpenAppend(lg_files, s)
    /\ lg_tasks' = [lg_tasks EXCEPT ![s] = "writing"]
    /\ UNCHANGED <<lg_all, lg_gen>>
    /\ LogFrame

\* manager.rs:191-198: a line of the process is written with its newline.
LogWrite(s) ==
    /\ s \in DOMAIN lg_tasks
    /\ lg_tasks[s] = "writing"
    /\ LET mine == SelectSeq(lg_all[s], LAMBDA l : l.gen = lg_gen)
           line == LogLine(lg_gen, Len(mine) + 1)
       IN /\ Len(mine) < MaxLogLines
          /\ lg_files' = [lg_files EXCEPT ![s] = AppendWrite(@, line)]
          /\ lg_all' = [lg_all EXCEPT ![s] = Append(@, line)]
    /\ UNCHANGED <<lg_gen, lg_tasks>>
    /\ LogFrame

\* stop, or the first half of restart: the process and the daemon are ended
\* (manager.rs:203-283), and the tasks with them. No log file is touched.
LogStop ==
    /\ lg_tasks # <<>>
    /\ lg_tasks' = <<>>
    /\ UNCHANGED <<lg_files, lg_all, lg_gen>>
    /\ LogFrame

LogNext ==
    \/ LogStart
    \/ \E s \in LogStreams : LogOpen(s)
    \/ \E s \in LogStreams : LogWrite(s)
    \/ LogStop

(***************************************************************************)
(* The components at rest.                                                 *)
(***************************************************************************)
FsIdle == fs_dir = <<>> /\ fs_data = <<>>

SaveIdle == sv_pc = "idle" /\ sv_state = NoState /\ sv_pos = 0 /\ sv_ino = 0

ReadIdle == prev = LoadErr("none") /\ rd = <<>>

OsIdle == alive = {} /\ signals = <<>>

CliIdle ==
    /\ cli_pc = "idle"
    /\ cli_cmd = "none"
    /\ cli_name = <<>>
    /\ cli_out = <<>>
    /\ cli_exit = "none"
    /\ cli_st = NoState
    /\ cli_prev = <<>>

StartIdle == starts = <<>>

ExtIdle == FollowIdle /\ ResolveIdle /\ WaitIdle /\ DrainIdle /\ LogIdle

SupIdle ==
    /\ sup_pc = "idle"
    /\ configs = <<>>
    /\ sup_i = 0
    /\ sup_children = <<>>
    /\ proc_infos = <<>>
    /\ sup_err = NoSupErr
    /\ next_pid = 0
    /\ manager_self = 0
    /\ sup_sigs = {}

(***************************************************************************)
(* The specifications.                                                     *)
(***************************************************************************)
InitTail ==
    /\ TailInit
    /\ TaskIdle /\ FsIdle /\ SaveIdle /\ ReadIdle /\ OsIdle /\ CliIdle /\ SupIdle /\ StartIdle /\ ExtIdle
SpecTail == InitTail /\ [][TailNext]_vars

InitTask ==
    /\ TaskInit
    /\ TailIdle /\ FsIdle /\ SaveIdle /\ ReadIdle /\ OsIdle /\ CliIdle /\ SupIdle /\ StartIdle /\ ExtIdle
SpecTask == InitTask /\ [][TaskNext]_vars

InitStore ==
    /\ StoreInit
    /\ TailIdle /\ TaskIdle /\ OsIdle /\ CliIdle /\ SupIdle /\ StartIdle /\ ExtIdle
SpecStore == InitStore /\ [][StoreNext]_vars

InitCli ==
    /\ CliInit
    /\ TailIdle /\ TaskIdle /\ SaveIdle /\ ReadIdle /\ SupIdle /\ StartIdle /\ ExtIdle
SpecCli == InitCli /\ [][CliNext]_vars

InitGroups ==
    /\ GroupsInit
    /\ TailIdle /\ TaskIdle /\ SaveIdle /\ ReadIdle /\ SupIdle /\ StartIdle /\ ExtIdle
SpecGroups == InitGroups /\ [][CliNext]_vars

InitSup ==
    /\ SupInit
    /\ TailIdle /\ TaskIdle /\ ReadIdle /\ CliIdle /\ StartIdle /\ ExtIdle
SpecSup == InitSup /\ [][SupNext]_vars
\* The runtime keeps polling the daemon's future: a step of the daemon that
\* stays possible is taken.
SpecSupLive == SpecSup /\ WF_vars(SupSteps)

\* The two shutdowns: the daemon's own (manager.rs:145-162), or that of a stop
\* command (manager.rs:203-283).
InitShutdown == InitSup \/ InitCli
ShutdownNext ==
    \/ SupNext
    \/ CliNext
SpecShutdown == InitShutdown /\ [][ShutdownNext]_vars

InitStart ==
    /\ StartInit
    /\ TailIdle /\ TaskIdle /\ SaveIdle /\ ReadIdle /\ SupIdle /\ ExtIdle
SpecStart == InitStart /\ [][StartNext]_vars

InitFollow ==
    /\ FollowInit
    /\ TailIdle /\ TaskIdle /\ FsIdle /\ SaveIdle /\ ReadIdle /\ OsIdle /\ CliIdle /\ SupIdle
    /\ StartIdle /\ ResolveIdle /\ WaitIdle /\ DrainIdle /\ LogIdle
SpecFollow == InitFollow /\ [][FollowNext]_vars
\* The runtime keeps polling the task and its sleep ends: a turn of the wait
\* loop that stays possible is taken.
SpecFollowLive == SpecFollow /\ WF_vars(FollowWait)

InitResolve ==
    /\ ResolveInit
    /\ TailIdle /\ TaskIdle /\ FsIdle /\ SaveIdle /\ ReadIdle /\ OsIdle /\ CliIdle /\ SupIdle
    /\ StartIdle /\ FollowIdle /\ WaitIdle /\ DrainIdle /\ LogIdle
SpecResolve == InitResolve /\ [][ResolveNext]_vars

InitWait ==
    /\ WaitInit
    /\ TailIdle /\ TaskIdle /\ ReadIdle /\ OsIdle /\ CliIdle /\ SupIdle /\ StartIdle
    /\ FollowIdle /\ ResolveIdle /\ DrainIdle /\ LogIdle
SpecWait == InitWait /\ [][WaitNext]_vars

InitDrain ==
    /\ DrainInit
    /\ TailIdle /\ TaskIdle /\ ReadIdle /\ CliIdle /\ StartIdle
    /\ FollowIdle /\ ResolveIdle /\ WaitIdle /\ LogIdle
SpecDrain == InitDrain /\ [][DrainNext]_vars
\* The runtime keeps polling the daemon's future: a step of the daemon that
\* stays possible is taken.
SpecDrainLive == SpecDrain /\ WF_vars(DrainSupSteps)

InitLog ==
    /\ LogInit
    /\ TailIdle /\ TaskIdle /\ FsIdle /\ SaveIdle /\ ReadIdle /\ OsIdle /\ CliIdle /\ SupIdle
    /\ StartIdle /\ FollowIdle /\ ResolveIdle /\ WaitIdle /\ DrainIdle
SpecLog == InitLog /\ [][LogNext]_vars

(***************************************************************************)
(* C1: what tail_last_lines returns.                                       *)
(***************************************************************************)
\* The whole file split on newline, one trailing empty element dropped.
WholeFileLines(f) ==
    LET all == split_nl(from_utf8_lossy(f))
    IN IF all[Len(all)] = <<>> THEN SubSeq(all, 1, Len(all) - 1) ELSE all

\* C1: when tail_last_lines(path, n) returns, its result is exactly the last
\* n lines of the whole file (all of them when n exceeds the line count),
\* whatever the file's size relative to the read chunk.
C1_TailEqualsLastLines ==
    tl_pc = "done" => tl_out = LastN(WholeFileLines(tl_file), tl_n)

\* A file of several chunks, an exact multiple of the chunk size, of which
\* the loop read only a part, and which holds more lines than asked for.
C1_Witness ==
    /\ tl_pc = "done"
    /\ Len(tl_file) = 2 * chunk
    /\ tl_read_size < Len(tl_file)
    /\ tl_n >= 1
    /\ Len(tl_out) = tl_n
    /\ Len(WholeFileLines(tl_file)) > tl_n

(***************************************************************************)
(* The histories of the task engine, as the claims read them.              *)
(***************************************************************************)
Logs == {threads[t].log : t \in DOMAIN threads}

\* The exec_task calls in history L that went past the unknown-task and
\* cycle checks into a composite of the given mode.
CompositeCalls(L, par) ==
    {p \in 1..Len(L) :
        /\ L[p].ev = "call"
        /\ L[p].task \in DOMAIN tasks
        /\ tasks[L[p].task].kind = "Composite"
        /\ tasks[L[p].task].parallel = par
        /\ \A j \in 1..Len(L[p].stack) : L[p].stack[j] # L[p].task}

\* The position of the return of the call at position p, 0 while it runs.
MatchRet(L, p) ==
    LET S == {q \in (p + 1)..Len(L) :
                 L[q].ev = "ret" /\ L[q].tid = L[p].tid /\ L[q].depth = L[p].depth}
    IN IF S = {} THEN 0 ELSE CHOOSE q \in S : \A r \in S : q <= r

\* What happened inside the call at position p.
Inside(L, p) ==
    SubSeq(L, p + 1, IF MatchRet(L, p) = 0 THEN Len(L) ELSE MatchRet(L, p) - 1)

\* The calls and returns of the children of the sequential composite called
\* at position p.
ChildEvents(L, p) ==
    LET Test(e) == /\ e.tid = L[p].tid
                   /\ e.depth = L[p].depth + 1
                   /\ e.ev \in {"call", "ret"}
    IN SelectSeq(Inside(L, p), Test)

\* The events ev of branch j of the parallel composite called at position p.
BranchEvents(L, p, j, ev) ==
    LET Test(e) == e.tid = L[p].tid \o <<j>> /\ e.depth = 1 /\ e.ev = ev
    IN SelectSeq(Inside(L, p), Test)

CountEv(L, ev) == Cardinality({k \in 1..Len(L) : L[k].ev = ev})

(***************************************************************************)
(* C2: sequential composites.                                              *)
(***************************************************************************)
\* C2: in a sequential composite with children c1..ck, the children are
\* called one at a time in the declared order, child c(i+1) only after
\* c(i) has returned Success; once a child has returned Failed(code) no
\* later child is called and the composite returns Failed(code).
C2_SequentialOrder ==
    \A L \in Logs : \A p \in CompositeCalls(L, FALSE) :
        LET P == L[p].task
            cs == tasks[P].children
            ce == ChildEvents(L, p)
            q == MatchRet(L, p)
        IN /\ Len(ce) <= 2 * Len(cs)
           /\ \A k \in 1..Len(ce) :
                IF k % 2 = 1
                THEN /\ ce[k].ev = "call"
                     /\ ce[k].task = resolve_child_name(P, cs[(k + 1) \div 2])
                     /\ k > 1 => ce[k - 1].ev = "ret" /\ ce[k - 1].res = Success
                ELSE /\ ce[k].ev = "ret"
                     /\ ce[k].res.t = "Failed" =>
                           /\ Len(ce) = k
                           /\ q # 0
                           /\ L[q].res = ce[k].res

\* The run of a sequential composite [X, Y] is over: X ran a command that
\* exited with code 2, Y was never called, the composite returned Failed(2).
C2_Witness ==
    /\ rt_pc = "done"
    /\ <<>> \in DOMAIN threads
    /\ \E p \in CompositeCalls(threads[<<>>].log, FALSE) :
         LET L == threads[<<>>].log
             ce == ChildEvents(L, p)
         IN /\ Len(tasks[L[p].task].children) = 2
            /\ Len(ce) = 2
            /\ ce[2].res = Failed(2)
            /\ tasks[ce[1].task].kind = "Shell"
            /\ MatchRet(L, p) # 0
            /\ L[MatchRet(L, p)].res = Failed(2)

(***************************************************************************)
(* C3: parallel composites.                                                *)
(***************************************************************************)
\* C3: when a parallel composite has returned, every child was called and
\* has returned, every command started under it has exited, and if every
\* child ended in Success or Failed the composite returned Success when all
\* succeeded and otherwise Failed with the code of the failing child that
\* is first in declaration order, whatever the order the commands ended in.
C3_ParallelAggregate ==
    \A L \in Logs : \A p \in CompositeCalls(L, TRUE) :
        LET P == L[p].task
            cs == tasks[P].children
            q == MatchRet(L, p)
            rets == [j \in 1..Len(cs) |-> BranchEvents(L, p, j, "ret")]
            failing == {j \in 1..Len(cs) : rets[j][1].res.t = "Failed"}
            first == CHOOSE j \in failing : \A i \in failing : j <= i
        IN q # 0 =>
            /\ \A j \in 1..Len(cs) :
                 /\ Len(BranchEvents(L, p, j, "call")) = 1
                 /\ BranchEvents(L, p, j, "call")[1].task
                        = resolve_child_name(P, cs[j])
                 /\ Len(rets[j]) = 1
            /\ CountEv(Inside(L, p), "start") = CountEv(Inside(L, p), "exit")
            /\ (\A j \in 1..Len(cs) : rets[j][1].res.t \in {"Success", "Failed"}) =>
                 L[q].res = IF failing = {} THEN Success
                            ELSE Failed(rets[first][1].res.code)

\* The run of a parallel composite [X, Y] is over: Y's command ended first,
\* with code 1, X's ended after it with code 2, and the composite returned
\* Failed(2).
C3_Witness ==
    /\ rt_pc = "done"
    /\ normalize_task_query(rt_query) = K_g
    /\ tasks[K_g].parallel
    /\ Len(tasks[K_g].children) = 2
    /\ exits = << <<2>>, <<1>> >>
    /\ LET L == threads[<<>>].log
       IN /\ BranchEvents(L, 1, 1, "ret")[1].res = Failed(2)
          /\ BranchEvents(L, 1, 2, "ret")[1].res = Failed(1)
    /\ rt_outcome = Failed(2)

(***************************************************************************)
(* C4, C5, C10: errors of the task graph.                                  *)
(***************************************************************************)
\* The history of the whole run, once the root future has returned.
RootLog == IF <<>> \in DOMAIN threads THEN threads[<<>>].log ELSE <<>>

\* The task graph, name -> resolved children.
Edges(k) ==
    IF k \in DOMAIN tasks
    THEN {resolve_child_name(k, tasks[k].children[j]) :
             j \in 1..Len(tasks[k].children)}
    ELSE {}

RECURSIVE Closure(_)
Closure(S) ==
    LET N == S \cup UNION {Edges(k) : k \in S}
    IN IF N = S THEN S ELSE Closure(N)

\* The graph holds a path from A back to A.
OnCycle(A) == A \in Closure(Edges(A))

\* Every name that can be reached from A.
Reachable(A) == Closure({A})

\* C4: when the requested task A lies on a cycle of the task graph, the run
\* ends with a dependency-cycle error whose path leads from A back to A in
\* display form, never with Success or Failed(code); and no call stack grows
\* without bound. Read in the claim's favour: the graph has no other fault
\* (every child is defined, every cwd exists) and no command is killed by a
\* signal.
C4_CycleAlwaysReported ==
    LET A == normalize_task_query(rt_query)
    IN /\ \A t \in DOMAIN threads :
            Len(threads[t].stack) <= Cardinality(DOMAIN tasks) + 1
       /\ ( /\ rt_pc = "done"
            /\ A \in DOMAIN tasks
            /\ OnCycle(A)
            /\ Reachable(A) \subseteq DOMAIN tasks
            /\ \A k \in Reachable(A) :
                 tasks[k].cwd # <<>> => PathExists(ResolveCwd(tasks[k].cwd))
            /\ \A i \in 1..Len(RootLog) :
                 RootLog[i].ev = "exit" => RootLog[i].res.t # "Err" ) =>
            /\ rt_outcome.t = "Err"
            /\ rt_outcome.err.kind = "cycle"
            /\ Len(rt_outcome.err.names) >= 2
            /\ Head(rt_outcome.err.names) = display_task_name(A)
            /\ Last(rt_outcome.err.names) = display_task_name(A)

\* The names requested from the engine that are not keys of the task map.
UnknownRequested ==
    ({normalize_task_query(rt_query)} \ DOMAIN tasks)
        \cup {RootLog[k].task : k \in {i \in 1..Len(RootLog) :
                 RootLog[i].ev = "call" /\ RootLog[i].task \notin DOMAIN tasks}}

\* C5: when a name that is not a key of the task map has been requested, as
\* the root or as a child of a composite, the run ends with an unknown-task
\* error that lists every defined task, and no command was started for that
\* name.
C5_UnknownAlwaysReported ==
    (rt_pc = "done" /\ UnknownRequested # {}) =>
        /\ rt_outcome.t = "Err"
        /\ rt_outcome.err.kind = "unknown"
        /\ rt_outcome.err.names = available
        /\ \A k \in 1..Len(RootLog) :
             RootLog[k].ev = "start" => RootLog[k].task \notin UnknownRequested

\* The places of the history where a shell task found its cwd missing.
CwdFailures ==
    {k \in 1..Len(RootLog) :
        /\ RootLog[k].ev = "ret"
        /\ RootLog[k].res.t = "Err"
        /\ RootLog[k].res.err.kind = "cwd"
        /\ RootLog[k].res.err.task = display_task_name(RootLog[k].task)}

\* C10: when a shell task reached from the requested root declares a cwd
\* that does not exist, the run ends with the error that names that task and
\* the resolved absolute path, and no command of the graph was started
\* before the failure. Read in the claim's favour: the graph has no other
\* fault (every child is defined, no cycle), and of several such tasks the
\* error names one.
C10_CwdFailsBeforeAnyCommand ==
    LET A == normalize_task_query(rt_query)
    IN ( /\ rt_pc = "done"
         /\ Reachable(A) \subseteq DOMAIN tasks
         /\ \A n \in Reachable(A) : ~OnCycle(n)
         /\ CwdFailures # {} ) =>
                /\ \E k \in CwdFailures :
                     rt_outcome = Err(ErrCwd(display_task_name(RootLog[k].task),
                                             ResolveCwd(tasks[RootLog[k].task].cwd)))
                /\ \A k \in CwdFailures :
                     \A i \in 1..(k - 1) : RootLog[i].ev # "start"

(***************************************************************************)
(* C6, C7: save_state and the readers of state.json.                       *)
(***************************************************************************)
\* C6: a load that follows a save_state on the same directory returns a
\* ManagerState equal to the saved one, field for field: the manager's pid,
\* started_at, project_root and version, and every ProcessInfo, in order.
C6_SaveLoadRoundTrip ==
    \A r \in DOMAIN rd :
        (rd[r].pc = "done" /\ rd[r].opened_at = "done") =>
            /\ rd[r].res.ok
            /\ rd[r].res.val.manager = sv_state.manager
            /\ rd[r].res.val.processes = sv_state.processes

\* A state of two processes, with a cwd, with quotes and backslashes in its
\* strings and with nanoseconds in its times, was saved and loaded.
C6_Witness ==
    \E r \in DOMAIN rd :
        /\ rd[r].pc = "done"
        /\ rd[r].opened_at = "done"
        /\ rd[r].res.ok
        /\ Len(sv_state.processes) = 2
        /\ sv_state.processes[1].cwd # <<>>
        /\ sv_state.processes[2].cwd = <<>>
        /\ sv_state.manager.project_root = <<"/", "\"", "\\">>
        /\ sv_state.manager.started_at.nanos = 5000

\* C7: whatever the interleaving of a save_state with the readers of
\* state.json, a read yields the whole previous state (or no file, when
\* there was none) or the whole new state, never a part of one and never
\* an empty file.
C7_ReadersSeeWholeStates ==
    \A r \in DOMAIN rd :
        rd[r].pc = "done" => (rd[r].res = prev \/ rd[r].res = LoadOk(sv_state))

\* While save_state was in the middle of its writes one reader opened
\* state.json and got the previous state; another opened it after the
\* rename and got the new one.
C7_Witness ==
    /\ prev.ok
    /\ prev.val # sv_state
    /\ rd[1].pc = "done"
    /\ rd[1].opened_at = "write"
    /\ rd[1].res = prev
    /\ rd[2].pc = "done"
    /\ rd[2].opened_at = "done"
    /\ rd[2].res = LoadOk(sv_state)

(***************************************************************************)
(* C8: the commands without a saved state.                                 *)
(***************************************************************************)
\* C8: when state.json is absent or cannot be deserialized, each of status,
\* stop and logs prints that no daemon state was found and ends with
\* success, having sent no signal and removed no file.
C8_NoStateIsReported ==
    [][(cli_pc = "start" /\ ~load_state_from_root.ok) =>
          /\ cli_pc' = "done"
          /\ cli_out' = NoDaemonState
          /\ cli_exit' = "ok"
          /\ signals' = signals
          /\ alive' = alive
          /\ fs_dir' = fs_dir
          /\ fs_data' = fs_data]_vars

\* stop has run on a state.json that holds a text cut short, with
\* manager.pid and manager.lock in place and processes alive.
C8_Witness ==
    /\ cli_pc = "done"
    /\ cli_cmd = "stop"
    /\ state_file \in DOMAIN fs_dir
    /\ fs_data[fs_dir[state_file]] # <<>>
    /\ ~load_state_from_root.ok
    /\ {manager_pid, manager_lock} \subseteq DOMAIN fs_dir
    /\ alive # {}
    /\ cli_out = NoDaemonState
    /\ signals = <<>>

(***************************************************************************)
(* C9: a missing cwd at supervisor startup.                                *)
(***************************************************************************)
\* The configured processes whose cwd does not exist.
MissingCwd ==
    {i \in 1..Len(configs) :
        configs[i].cwd # <<>> /\ ~PathExists(ResolveCwd(configs[i].cwd))}

\* C9: when a configured process declares a cwd that does not exist,
\* startup fails with the error that names the process and the resolved
\* absolute path, before any process of the fleet is spawned and before
\* any state is saved, wherever the process stands in the list. Read in
\* the claim's favour: no spawn fails, and of several such processes the
\* error names one.
C9_MissingCwdFailsBeforeSpawn ==
    (MissingCwd # {} /\ sup_pc \in {"failed", "serving"} /\ sup_err.kind # "spawn") =>
        /\ sup_pc = "failed"
        /\ \E i \in MissingCwd :
             sup_err = ErrProcCwd(configs[i].name, ResolveCwd(configs[i].cwd))
        /\ sup_children = <<>>
        /\ alive = {manager_self}
        /\ sv_pc = "idle"

(***************************************************************************)
(* C11: a spawn that fails at supervisor startup.                          *)
(***************************************************************************)
\* C11: when cmd.spawn() fails for a configured process, startup has failed,
\* save_state was not called, and none of the processes spawned in the
\* earlier turns of the loop is running.
C11_SpawnFailureLeavesNothing ==
    sup_err = ErrSpawn =>
        /\ sup_pc = "failed"
        /\ sv_pc = "idle"
        /\ \A i \in 1..Len(sup_children) : sup_children[i] \notin alive

(***************************************************************************)
(* C12, C13: the supervisor's wait and its shutdown.                       *)
(***************************************************************************)
\* C12, as claimed: with every log-drain task complete and no signal
\* arrived, the step the waiting supervisor takes begins the shutdown
\* protocol.
C12_DrainedSupervisorShutsDown ==
    [][(sup_pc = "waiting" /\ Drained /\ sup_sigs = {} /\ sup_pc' # sup_pc)
          => sup_pc' = "shutdown"]_vars

\* C12, as the code has it: with every log-drain task complete and no
\* signal arrived the waiting supervisor parks; parked, it sends no signal
\* and stays alive, and it leaves that state only for the shutdown protocol
\* and only when a SIGTERM has been delivered to it.
C12_ParksUntilSigterm ==
    [][/\ (sup_pc = "waiting" /\ sup_sigs = {} /\ sup_pc' # sup_pc)
            => (Drained /\ sup_pc' = "parked")
       /\ sup_pc = "parked"
            => /\ signals' = signals
               /\ manager_self \in alive'
               /\ sup_pc' # "parked" => ("SIGTERM" \in sup_sigs /\ sup_pc' = "shutdown")
      ]_vars

C12_Witness ==
    /\ sup_pc = "parked"
    /\ Len(sup_children) = 2
    /\ Drained
    /\ sup_sigs = {"SIGINT"}
    /\ signals = <<>>

\* C13, as claimed: a SIGTERM delivered once the state is persisted never
\* ends the supervisor before it has run the shutdown protocol.
C13_SigtermAfterPersistShutsDown ==
    ~(sup_pc = "killed" /\ sv_pc = "done" /\ "SIGTERM" \in sup_sigs)

\* C13, as the code has it: a SIGTERM delivered once the signal streams
\* exist leads to the shutdown protocol (SIGTERM sent to every child's
\* group), whether the children still run or have all exited.
C13_SigtermLeadsToShutdown ==
    (sup_pc \in {"waiting", "parked"} /\ "SIGTERM" \in sup_sigs)
        ~> (sup_pc \in {"sleeping", "exited"}
            /\ \A i \in 1..Len(sup_children) :
                 \E k \in 1..Len(signals) :
                    signals[k] = Sig("SIGTERM", 0 - sup_children[i]))

C13_Witness ==
    /\ sup_pc = "parked"
    /\ Len(sup_children) = 2
    /\ Drained
    /\ "SIGTERM" \in sup_sigs

(***************************************************************************)
(* C14 .. C17: stop.                                                       *)
(***************************************************************************)
\* C14: stop, having loaded a state, sends SIGTERM to the negated pgid of
\* every process of the state, in order; for each it prints whether the
\* signal was sent or failed; a failure stops nothing: the grace period
\* follows, and a stop that is over has signalled the manager.
C14_SignalPhaseReachesEveryGroup ==
    [][/\ (cli_pc = "start" /\ cli_cmd = "stop" /\ load_state_from_root.ok) =>
            LET ps == load_state_from_root.val.processes
            IN /\ signals' = signals
                    \o [i \in 1..Len(ps) |-> Sig("SIGTERM", 0 - ps[i].pgid)]
               /\ Len(cli_out') = Len(ps) + 2
               /\ \A i \in 1..Len(ps) :
                    cli_out'[i + 1] =
                        Msg(IF ps[i].pgid \in alive THEN "sent SIGTERM"
                            ELSE "already stopped or cannot signal", ps[i].name)
               /\ cli_pc' = "grace"
       /\ (cli_cmd' = "stop" /\ cli_pc' = "done" /\ cli_st' # NoState) =>
            \E k \in 1..Len(signals') :
                signals'[k] = Sig("SIGTERM", cli_st'.manager.pid)
      ]_vars

\* The first process of the state was gone, the second was signalled.
C14_Witness ==
    /\ cli_pc = "done"
    /\ cli_cmd = "stop"
    /\ Len(cli_st.processes) = 2
    /\ cli_out[2].text = "already stopped or cannot signal"
    /\ cli_out[3].text = "sent SIGTERM"

\* The SIGKILLs to groups among the signals sent by one step.
GroupKills(before, after) ==
    SelectSeq(SubSeq(after, Len(before) + 1, Len(after)),
              LAMBDA g : g.sig = "SIGKILL" /\ g.to < 0)

\* C15: when the grace period is over, SIGKILL goes to the group of a
\* process of the state exactly if its pid is alive at that time, and the
\* count that stop prints at its end is the number of these processes.
C15_EscalationExactlyTheLiving ==
    [][/\ (cli_pc = "grace" /\ cli_pc' = "mgr_wait") =>
            LET ps == cli_st.processes
                kills == GroupKills(signals, signals')
            IN /\ \A i \in 1..Len(ps) :
                    (ps[i].pid \in alive) <=>
                        \E k \in 1..Len(kills) :
                            kills[k] = Sig("SIGKILL", 0 - ps[i].pgid)
               /\ Len(kills) = Cardinality({i \in 1..Len(ps) : ps[i].pid \in alive})
       /\ (cli_pc = "mgr_wait" /\ cli_pc' = "done" /\ cli_prev = <<>>) =>
            \E k \in 1..Len(cli_out') :
                cli_out'[k] = Msg("Stop complete.",
                                  <<Len(GroupKills(<<>>, signals'))>>)
      ]_vars

\* Of two processes one outlived the grace period.
C15_Witness ==
    /\ cli_pc = "done"
    /\ cli_prev = <<>>
    /\ Len(cli_st.processes) = 2
    /\ \E k \in 1..Len(cli_out) : cli_out[k] = Msg("Stop complete.", <<1>>)

C17_SecondStopDoesNothing ==
    [][(cli_pc = "start" /\ cli_cmd = "stop"
            /\ \E k \in 1..Len(cli_prev) : cli_prev[k] = "stop") =>
          /\ cli_pc' = "done"
          /\ cli_exit' = "ok"
          /\ cli_out' = NoDaemonState
          /\ signals' = signals
      ]_vars

(***************************************************************************)
(* C18 .. C20: start.                                                      *)
(***************************************************************************)
\* manager.pid is there, its text is UTF-8 and, trimmed, the numeral of a
\* pid that no process or group answers to.
PidFileIsStale ==
    /\ manager_pid \in DOMAIN fs_dir
    /\ LET text == fs_data[fs_dir[manager_pid]]
           p == parse_i32(TrimEnd(TrimStart(text)))
       IN /\ \A i \in 1..Len(text) : text[i] # "0xFF"
          /\ p.ok
          /\ ~CanSignal(p.val)

C19_StartFailsWhileDaemonHoldsLock ==
    [][\A s \in DOMAIN starts :
          (/\ starts'[s] # starts[s]
           /\ starts[s].pc = "cleanup" \/ starts[s].entry
           /\ OtherDaemonLocked(s)) =>
             /\ \A x \in {manager_pid, state_file} :
                    IF x \in DOMAIN fs_dir
                    THEN /\ x \in DOMAIN fs_dir'
                         /\ fs_dir'[x] = fs_dir[x]
                         /\ fs_data'[fs_dir'[x]] = fs_data[fs_dir[x]]
                    ELSE x \notin DOMAIN fs_dir'
             /\ alive' = alive
             /\ starts'[s].pc \in {"open", "lock", "failed"}
             /\ starts[s].pc = "lock" =>
                    /\ starts'[s].pc = "failed"
                    /\ starts'[s].err =
                         "Another oxproc daemon seems to be running (lock held at manager.lock)."
      ]_vars

\* What of C19 holds: where manager.lock still names the file the daemon
\* has locked, the start changes nothing at all and fails on the lock.
C19_HeldLockFileStartFails ==
    [][\A s \in DOMAIN starts :
          (/\ starts'[s] # starts[s]
           /\ starts[s].pc = "cleanup" \/ starts[s].entry
           /\ \E t \in DOMAIN starts \ {s} :
                 /\ starts[t].pc \in {"manager", "serving"}
                 /\ DaemonPid(t) \in alive
                 /\ starts[t].locked
                 /\ manager_lock \in DOMAIN fs_dir
                 /\ starts[t].lock = fs_dir[manager_lock]) =>
             /\ fs_data' = fs_data
             /\ fs_dir' = fs_dir
             /\ alive' = alive
             /\ starts'[s].pc \in {"open", "lock", "failed"}
             /\ starts[s].pc = "lock" =>
                    /\ starts'[s].pc = "failed"
                    /\ starts'[s].err =
                         "Another oxproc daemon seems to be running (lock held at manager.lock)."
      ]_vars

\* The second start has failed on the lock of the first, whose daemon
\* serves with manager.pid and state.json its own.
C19_Witness ==
    /\ starts[1].pc = "serving"
    /\ DaemonPid(1) \in alive
    /\ starts[2].pc = "failed"
    /\ starts[2].entry
    /\ starts[2].err = "Another oxproc daemon seems to be running (lock held at manager.lock)."
    /\ starts[2].cleaned = <<FALSE>>
    /\ fs_data[fs_dir[manager_pid]] = NatDigits(DaemonPid(1))
    /\ load_state_from_root.ok
    /\ load_state_from_root.val.manager.pid = DaemonPid(1)

\* C20: at no time are two daemons of the project alive and supervising.
C20_AtMostOneDaemon ==
    Cardinality({s \in DOMAIN starts :
                    starts[s].pc = "serving" /\ DaemonPid(s) \in alive}) <= 1

(***************************************************************************)
(* C21, C22: follow_file.                                                  *)
(***************************************************************************)
\* The bytes follow_file has read of a file that has only grown.
FollowConsumed == SubSeq(fl_file, fl_start + 1, fl_pos)

\* C21: while the file has only grown since the seek, the lines sent are
\* exactly the complete lines of the bytes read so far, each once, with the
\* prefix, in file order, however the reads split the bytes; what follows
\* the last newline has not been sent.
C21_GrowingFileLinesOnce ==
    (fl_truncs = 0 /\ fl_pc \in {"read", "sleep"}) =>
        fl_sent = SentLines(from_utf8_lossy(FollowConsumed))

\* What of C21 holds: one line is sent for every newline read, in order,
\* and the lines are those of the file wherever the bytes read are ASCII.
C21_AsciiLinesOnce ==
    (fl_truncs = 0 /\ fl_pc \in {"read", "sleep"}) =>
        /\ Len(fl_sent) = newline_count(FollowConsumed)
        /\ (\A i \in 1..Len(FollowConsumed) : FollowConsumed[i] \in {"nl", "a"}) =>
              /\ fl_sent = SentLines(from_utf8_lossy(FollowConsumed))
              /\ fl_partial = LeftPartial(from_utf8_lossy(FollowConsumed))

\* C22: once the file has been truncated and follow_file has found nothing
\* left to read, it has sent a line for every line the file now holds, all
\* of them written after the truncation.
C22_LinesAfterTruncationObserved ==
    (fl_truncs > 0 /\ fl_settled) =>
        Len(fl_sent) - fl_mark >= newline_count(fl_file)

(***************************************************************************)
(* C23 .. C25: the results of the task engine.                             *)
(***************************************************************************)
\* The results that exec_task calls have returned so far.
Returned ==
    {RootLog[k].res : k \in {i \in 1..Len(RootLog) : RootLog[i].ev = "ret"}}

\* C23: no exec_task call returns Failed(0). A command that exits with a
\* code other than 0 yields Failed with that code, one that exits with 0
\* yields Success, one ended by a signal an error. A finished run is Failed
\* only with the non-zero code some command exited with, Success only when
\* every command exited with 0 and no call failed, and an error (unknown
\* task, cycle, missing cwd, signal) whenever some call returned one; the
\* process exits with the code of Failed, and with 0 only on Success.
C23_NeverFailedZero ==
    /\ \A k \in 1..Len(rt_statuses) :
          LET e == rt_statuses[k]
          IN /\ e.status = Exited(0) => e.res = Success
             /\ \A c \in 1..MaxExitCode : e.status = Exited(c) => e.res = Failed(c)
             /\ e.status = Signaled => e.res = Err(ErrSignal)
    /\ \A t \in DOMAIN threads : \A k \in 1..Len(threads[t].log) :
          threads[t].log[k].res.t = "Failed" => threads[t].log[k].res.code # 0
    /\ rt_pc = "done" =>
          /\ rt_outcome.t \in {"Success", "Failed", "Err"}
          /\ rt_outcome.t = "Failed" =>
                /\ rt_outcome.code # 0
                /\ \E k \in 1..Len(rt_statuses) :
                      rt_statuses[k].status = Exited(rt_outcome.code)
                /\ run_task_exit(rt_outcome) = rt_outcome.code
          /\ rt_outcome.t = "Success" =>
                \A k \in 1..Len(rt_statuses) : rt_statuses[k].status = Exited(0)
          /\ (\E r \in Returned : r.t = "Err") => rt_outcome.t = "Err"
          /\ rt_outcome.t = "Err" =>
                rt_outcome.err.kind \in {"unknown", "cycle", "cwd", "signal"}
          /\ run_task_exit(rt_outcome) = 0 <=> rt_outcome = Success

\* A finished run in which one command exited with 0 and a later one with
\* 2: the run is Failed(2) and the process exits with 2.
C23_Witness ==
    /\ rt_pc = "done"
    /\ rt_outcome = Failed(2)
    /\ run_task_exit(rt_outcome) = 2
    /\ Len(rt_statuses) = 2
    /\ rt_statuses[1].status = Exited(0)
    /\ rt_statuses[2].status = Exited(2)

\* C24: a run that has failed with an unknown-task or a cycle error has
\* started no command.
C24_GraphErrorsBeforeExecution ==
    (/\ rt_pc = "done"
     /\ rt_outcome.t = "Err"
     /\ rt_outcome.err.kind \in {"unknown", "cycle"}) =>
        /\ rt_statuses = <<>>
        /\ CountEv(RootLog, "start") = 0

\* C25: resolve_child_name returns the normalized child as it is when the
\* child holds a '.' or a ':' or the parent is empty, and the parent, a '.'
\* and the normalized child otherwise; the normalized child is the child
\* without the blanks around it and with '.' wherever it has ':'.
C25_ResolveChildName ==
    rc_pc = "done" =>
        LET trimmed == TrimEnd(TrimStart(rc_child))
            norm == [i \in 1..Len(trimmed) |->
                        IF trimmed[i] = ":" THEN "." ELSE trimmed[i]]
            absolute == \E i \in 1..Len(rc_child) : rc_child[i] \in {".", ":"}
        IN /\ (absolute \/ rc_parent = <<>>) => rc_out = norm
           /\ ~(absolute \/ rc_parent = <<>>) => rc_out = rc_parent \o <<".">> \o norm
           /\ \A i \in 1..Len(norm) : rc_out[Len(rc_out) - Len(norm) + i] # ":"

\* resolve_child_name("g.a", "a:a") has returned "a.a".
C25_Witness ==
    /\ rc_pc = "done"
    /\ rc_parent = <<"g", ".", "a">>
    /\ rc_child = <<"a", ":", "a">>
    /\ rc_out = <<"a", ".", "a">>

(***************************************************************************)
(* C26: wait_for_manager_ready.                                            *)
(***************************************************************************)
\* A read of state.json gave a ManagerState with a project_root.
SawReady(ld) == ld.ok /\ ld.val.manager.project_root # <<>>

\* C26: wait_for_manager_ready returns Ok at the first read of state.json
\* that gives a ManagerState with a non-empty project_root, whatever its
\* process list, and goes on while no read has; it returns the error only
\* when the timeout has elapsed and no read has given such a state.
C26_ReadyOnFirstValidState ==
    /\ \A k \in 1..(Len(wr_polls) - 1) : ~SawReady(wr_polls[k])
    /\ wr_pc = "ok" <=> (wr_polls # <<>> /\ SawReady(wr_polls[Len(wr_polls)]))
    /\ wr_pc = "err" =>
          /\ wr_elapsed >= wr_timeout
          /\ \A k \in 1..Len(wr_polls) : ~SawReady(wr_polls[k])

\* The wait found no file, slept, and then found the state the daemon had
\* saved meanwhile, with no process in it: it returned Ok.
C26_Witness ==
    /\ wr_pc = "ok"
    /\ Len(wr_polls) = 2
    /\ wr_polls[1].err = "io"
    /\ wr_last_err = <<"io">>
    /\ wr_polls[2].ok
    /\ wr_polls[2].val.processes = <<>>
    /\ wr_polls[2].val.manager.project_root = <<"/", "p">>
    /\ sv_pc = "done"

(***************************************************************************)
(* C27 .. C29: the supervisor's state file and the two shutdown paths.     *)
(***************************************************************************)
\* state.json names another file than before, or the text of its file has
\* changed.
StateFileWritten ==
    \/ (state_file \in DOMAIN fs_dir) # (state_file \in DOMAIN fs_dir')
    \/ /\ state_file \in DOMAIN fs_dir
       /\ state_file \in DOMAIN fs_dir'
       /\ \/ fs_dir'[state_file] # fs_dir[state_file]
          \/ fs_data'[fs_dir'[state_file]] # fs_data[fs_dir[state_file]]

\* The saved state has one ProcessInfo per configured process, in the order
\* of the configuration, with the pid and the group that were recorded when
\* the process was spawned, and the supervisor's pid as the manager's.
DescribesConfigs(st) ==
    /\ st.manager.pid = manager_self
    /\ Len(st.processes) = Len(configs)
    /\ Len(sup_children) = Len(configs)
    /\ \A i \in 1..Len(configs) :
          /\ st.processes[i] = proc_infos[i]
          /\ st.processes[i].name = configs[i].name
          /\ st.processes[i].cmd = configs[i].command
          /\ st.processes[i].pid = sup_children[i]
          /\ st.processes[i].pgid = sup_children[i]

\* C27: state.json is written by one step only, the rename that ends the
\* one save_state of the supervisor, after every configured process has
\* been spawned; what it then holds describes the configured processes;
\* and the supervisor goes on to serve only with that state in the file.
C27_StateSavedOnceAfterSpawns ==
    [][/\ StateFileWritten =>
            /\ sup_pc = "saving"
            /\ sv_pc = "rename" /\ sv_pc' = "done"
            /\ load_state_from_root'.ok
            /\ DescribesConfigs(load_state_from_root'.val)
       /\ sv_pc = "done" => sv_pc' = "done"
       /\ (sup_pc = "saving" /\ sup_pc' = "serving") =>
            /\ load_state_from_root.ok
            /\ DescribesConfigs(load_state_from_root.val)
      ]_vars

\* The supervisor serves three processes; state.json, which held the state
\* of an earlier run, holds the three of them.
C27_Witness ==
    /\ sup_pc = "waiting"
    /\ Len(configs) = 3
    /\ state_file \in DOMAIN fs_dir
    /\ fs_dir[state_file] # 1
    /\ Len(fs_data) >= 2
    /\ fs_data[1] = to_writer_pretty(OldState)
    /\ load_state_from_root.ok
    /\ Len(load_state_from_root.val.processes) = 3
    /\ load_state_from_root.val.manager.pid = manager_self


\* The signals a step sends.
NewSignals == SubSeq(signals', Len(signals) + 1, Len(signals'))

GroupSignals(sig, pgids) == [i \in 1..Len(pgids) |-> Sig(sig, 0 - pgids[i])]

StoppedGroups == [i \in 1..Len(cli_st.processes) |-> cli_st.processes[i].pgid]

\* What a step of either shutdown may send and remove, given what was sent
\* before it.
ShutdownStepInOrder ==
    /\ (sup_pc' # sup_pc /\ NewSignals # <<>>) =>
        \/ /\ sup_pc = "shutdown" /\ sup_pc' = "sleeping"
           /\ NewSignals = GroupSignals("SIGTERM", sup_children)
        \/ /\ sup_pc = "sleeping"
           /\ LastN(signals, Len(sup_children))
                 = GroupSignals("SIGTERM", sup_children)
           /\ NewSignals = GroupSignals("SIGKILL", sup_children)
    /\ (cli_pc' # cli_pc /\ NewSignals # <<>>) =>
        \/ /\ cli_pc = "start" /\ cli_pc' = "grace"
           /\ NewSignals = LET st == cli_st'
                            IN [i \in 1..Len(st.processes) |->
                                  Sig("SIGTERM", 0 - st.processes[i].pgid)]
        \/ /\ cli_pc = "grace" /\ cli_pc' = "mgr_wait"
           /\ LastN(signals, Len(StoppedGroups))
                 = GroupSignals("SIGTERM", StoppedGroups)
           /\ NewSignals[Len(NewSignals)] = Sig("SIGTERM", cli_st.manager.pid)
           /\ \A k \in 1..(Len(NewSignals) - 1) :
                 /\ NewSignals[k].sig = "SIGKILL"
                 /\ \E i \in 1..Len(StoppedGroups) :
                      NewSignals[k].to = 0 - StoppedGroups[i]
        \/ /\ cli_pc = "mgr_wait"
           /\ signals[Len(signals)] = Sig("SIGTERM", cli_st.manager.pid)
           /\ NewSignals = <<Sig("SIGKILL", cli_st.manager.pid)>>
    /\ (\E f \in {manager_pid, manager_lock} :
            f \in DOMAIN fs_dir /\ f \notin DOMAIN fs_dir') =>
        /\ cli_pc = "mgr_wait"
        /\ signals # <<>>
        /\ signals[Len(signals)] = Sig("SIGTERM", cli_st.manager.pid)

\* C28: in the daemon's own shutdown and in stop alike, the step that sends
\* the first SIGKILL comes after the wait, and by then SIGTERM has been sent
\* to the group of every process, in one go; stop sends the manager its
\* SIGTERM after the last SIGKILL to a group, the manager's SIGKILL after
\* that, and removes manager.pid and manager.lock only once the manager has
\* been signalled.
C28_ShutdownOrder ==
    [][ShutdownStepInOrder]_vars

\* A stop that sent SIGTERM to two groups, SIGKILL to the one still alive
\* after the wait, SIGTERM and then SIGKILL to the manager, and removed both
\* files.
C28_Witness ==
    /\ cli_pc = "done"
    /\ cli_cmd = "stop"
    /\ Len(signals) = 5
    /\ signals[1].sig = "SIGTERM" /\ signals[2].sig = "SIGTERM"
    /\ signals[3].sig = "SIGKILL" /\ signals[3].to < 0
    /\ signals[4] = Sig("SIGTERM", cli_st.manager.pid)
    /\ signals[5] = Sig("SIGKILL", cli_st.manager.pid)
    /\ manager_pid \notin DOMAIN fs_dir
    /\ manager_lock \notin DOMAIN fs_dir
    /\ \E k \in 1..Len(cli_out) :
         cli_out[k] = Msg("State cleaned up", {manager_pid, manager_lock})


\* The children that answer a probe, as stop's escalation asks of the
\* processes (manager.rs:233).
StillAlive == SelectSeq(sup_children, LAMBDA c : CanSignal(c))

\* C29: after its wait the daemon sends SIGKILL to the groups of the
\* children that are still alive, and to no child that has exited.
C29_KillOnlyStillAlive ==
    [][(sup_pc = "sleeping" /\ sup_pc' = "exited") =>
          NewSignals = GroupSignals("SIGKILL", StillAlive)]_vars


\* The step is a panic of the task of stream d.
Panics(d) == dr_pc[d] # "panicked" /\ dr_pc'[d] = "panicked"

\* What the task of d has written to its log and what waits in its pipe.
Kept(d) == dr_log[d] \o dr_pipe[d]
KeptNext(d) == dr_log'[d] \o dr_pipe'[d]

\* A step in which a task panics leaves the tasks, pipes and logs of the other
\* streams as they were, the supervisor where it was and the daemon alive.
PanicIsContained ==
    \A d \in DOMAIN dr_pc :
      Panics(d) =>
        /\ \A e \in DOMAIN dr_pc \ {d} :
             dr_pc'[e] = dr_pc[e] /\ dr_pipe'[e] = dr_pipe[e] /\ dr_log'[e] = dr_log[e]
        /\ UNCHANGED <<sup_pc, sup_sigs, alive, signals>>

\* No step takes a line from a stream whose task has not panicked: the lines
\* in its log and its pipe are those of before, or those and one more.
SiblingsLoseNothing ==
    \A e \in DOMAIN dr_pc :
      dr_pc'[e] # "panicked" =>
        \/ KeptNext(e) = Kept(e)
        \/ \E line \in {ValidLine, InvalidLine} : KeptNext(e) = Append(Kept(e), line)

\* C30: a failure in the task of one stream (open, read or write) leaves the
\* tasks of the other streams running and their lines logged, leaves the
\* supervisor alive where it was, and a SIGTERM delivered to the daemon
\* after it still takes the supervisor through its shutdown to its exit.
C30_DrainFailureContained ==
    /\ [][PanicIsContained /\ SiblingsLoseNothing]_vars
    /\ [](manager_self \notin alive => sup_pc = "exited")
    /\ (SomePanicked /\ "SIGTERM" \in sup_sigs) ~> (sup_pc = "exited")

\* The task of one stream has panicked, another stream has logged a line
\* after that, and the supervisor has then run its shutdown: SIGTERM and
\* SIGKILL to every group, and exit.
C30_Witness ==
    /\ SomePanicked
    /\ \E e \in dr_after : dr_pc[e] # "panicked" /\ dr_log[e] = <<ValidLine>>
    /\ sup_pc = "exited"
    /\ signals = GroupSignals("SIGTERM", sup_children)
                    \o GroupSignals("SIGKILL", sup_children)


\* C31: follow_file on a path that never exists ends: unless the file
\* appears, it returns Ok after 42 existence checks with 41 sleeps of 250 ms
\* between them (10.25 s), having sent no line; while it waits the count of
\* retries never goes beyond that.
C31_GivesUpSilently ==
    /\ [](fl_pc = "wait" => fl_retries <= FollowRetries + 1)
    /\ [](fl_pc = "done" =>
            /\ fl_retries = FollowRetries + 1
            /\ fl_retries * RetrySleepMs = 10250
            /\ fl_sent = <<>>
            /\ fl_pos = 0)
    /\ <>(fl_exists \/ fl_pc = "done")

\* The path never existed and the call has returned.
C31_Witness ==
    /\ fl_pc = "done"
    /\ ~fl_exists
    /\ fl_retries = 41
    /\ fl_sent = <<>>


(***************************************************************************)
(* C32, C33, C37: the call stack and the output mode in composites.        *)
(***************************************************************************)
\* How often a run of `name` that succeeds starts the command of shell task
\* k: once per path of the task graph from name to k. ChildRuns adds up the
\* children from the j-th on; fuel bounds the depth.
RECURSIVE RunCount(_, _, _)
RECURSIVE ChildRuns(_, _, _, _)
RunCount(name, k, fuel) ==
    IF fuel = 0 \/ name \notin DOMAIN tasks THEN 0
    ELSE IF tasks[name].kind = "Shell" THEN (IF name = k THEN 1 ELSE 0)
    ELSE ChildRuns(name, 1, k, fuel)
ChildRuns(name, j, k, fuel) ==
    IF j > Len(tasks[name].children) THEN 0
    ELSE RunCount(resolve_child_name(name, tasks[name].children[j]), k, fuel - 1)
            + ChildRuns(name, j + 1, k, fuel)

StartsOf(L, k) == Cardinality({i \in 1..Len(L) : L[i].ev = "start" /\ L[i].task = k})

NoDuplicate(stk) == \A i, j \in 1..Len(stk) : stk[i] = stk[j] => i = j

\* The names of a cycle error are a path of the task graph that starts at
\* the requested task and ends at a name it has passed before.
RealCyclePath(names) ==
    /\ Len(names) >= 2
    /\ names[1] = display_task_name(normalize_task_query(rt_query))
    /\ \A i \in 1..(Len(names) - 1) :
         \E p \in DOMAIN tasks : \E c \in Edges(p) :
            display_task_name(p) = names[i] /\ display_task_name(c) = names[i + 1]
    /\ \E i \in 1..(Len(names) - 1) : names[i] = names[Len(names)]

\* A step gives each new branch the stack of the composite that launches
\* it, leaves the stack of a composite that waits for its branches alone,
\* and changes the stack of one future at most.
StacksArePerBranch ==
    /\ \A u \in DOMAIN threads' \ DOMAIN threads :
         u # <<>> => threads'[u].stack = threads[Front(u)].stack
    /\ \A t \in DOMAIN threads \cap DOMAIN threads' :
         (threads[t].pc = "wait_join" /\ threads'[t].pc = "wait_join") =>
            threads'[t].stack = threads[t].stack
    /\ Cardinality({t \in DOMAIN threads \cap DOMAIN threads' :
                       threads'[t].stack # threads[t].stack}) <= 1

\* C32: each branch of a parallel composite starts with a copy of the
\* composite's stack and no push or pop of a branch shows in a sibling or
\* in the parent; a cycle is reported only for a real path of the graph
\* from the requested task, and no call goes on with its own name already on
\* its stack; a run that succeeds has started every shell task once per path
\* that leads to it, so a task in two sibling branches ran in both.
C32_BranchesOwnTheirStack ==
    /\ [][StacksArePerBranch]_vars
    /\ [](\A t \in DOMAIN threads :
            /\ (threads[t].result.t = "Err" /\ threads[t].result.err.kind = "cycle")
                  => RealCyclePath(threads[t].result.err.names)
            /\ threads[t].pc # "done" => NoDuplicate(threads[t].stack))
    /\ []((rt_pc = "done" /\ rt_outcome = Success) =>
            \A k \in DOMAIN tasks :
               StartsOf(RootLog, k)
                  = RunCount(normalize_task_query(rt_query), k, Cardinality(DOMAIN tasks)))

\* g runs [a, b] in parallel, g.a is a composite that runs g.b, g.b is a
\* shell task: its command was started in both branches and the run
\* succeeded.
C32_Witness ==
    /\ rt_pc = "done"
    /\ rt_outcome = Success
    /\ normalize_task_query(rt_query) = K_g
    /\ tasks[K_g].parallel
    /\ tasks[K_g].children = << <<"a">>, <<"b">> >>
    /\ tasks[K_ga].kind = "Composite"
    /\ K_gb \in DOMAIN tasks /\ tasks[K_gb].kind = "Shell"
    /\ \E i, j \in 1..Len(RootLog) :
         /\ RootLog[i].ev = "start" /\ RootLog[i].task = K_gb /\ RootLog[i].tid = <<1>>
         /\ RootLog[j].ev = "start" /\ RootLog[j].task = K_gb /\ RootLog[j].tid = <<2>>


\* C37: a call of exec_task that returns Success returns with the stack it
\* was entered with; so when no cycle can be reached from the requested task
\* the run never ends with a cycle error, and a run that succeeds has
\* started a shell task as often as there are paths to it.
C37_SuccessRestoresStack ==
    LET A == normalize_task_query(rt_query)
    IN /\ \A L \in Logs : \A p \in 1..Len(L) :
            (L[p].ev = "call" /\ MatchRet(L, p) # 0
                /\ L[MatchRet(L, p)].res = Success) =>
                   L[MatchRet(L, p)].stack = L[p].stack
       /\ (rt_pc = "done" /\ \A n \in Reachable(A) : ~OnCycle(n)) =>
            ~(rt_outcome.t = "Err" /\ rt_outcome.err.kind = "cycle")
       /\ (rt_pc = "done" /\ rt_outcome = Success) =>
            \A k \in DOMAIN tasks :
               StartsOf(RootLog, k) = RunCount(A, k, Cardinality(DOMAIN tasks))

\* The diamond: g runs [a, b] in order, g.a and g.b each run g.c in order,
\* g.c is a shell task; the run succeeded and the command of g.c was started
\* twice, each time on the stack g, then g.a or g.b.
C37_Witness ==
    /\ rt_pc = "done"
    /\ rt_outcome = Success
    /\ normalize_task_query(rt_query) = K_g
    /\ tasks[K_g] = Composite(<< <<"a">>, <<"b">> >>, FALSE)
    /\ tasks[K_ga] = Composite(<< <<"g", ".", "c">> >>, FALSE)
    /\ K_gb \in DOMAIN tasks
    /\ tasks[K_gb] = Composite(<< <<"g", ":", "c">> >>, FALSE)
    /\ \E i, j \in 1..Len(RootLog) :
         /\ RootLog[i].ev = "start" /\ RootLog[i].stack = <<K_g, K_ga, K_gc>>
         /\ RootLog[j].ev = "start" /\ RootLog[j].stack = <<K_g, K_gb, K_gc>>


\* C33: a child of a sequential composite (a call at depth 2 or more of its
\* future) is called with inherited output, and a command run under it is
\* started with inherited output; a call in prefixed mode is a direct child
\* of a parallel composite (depth 1 of a branch).
C33_SequentialChildrenInherit ==
    \A L \in Logs : \A p \in 1..Len(L) :
        /\ (L[p].ev \in {"call", "start"} /\ L[p].depth > 1) => L[p].stdio = Inherit
        /\ (L[p].ev = "call" /\ L[p].stdio.mode = "Prefixed") =>
              (L[p].depth = 1 /\ L[p].tid # <<>>)


IsPrefix(a, b) == Len(a) <= Len(b) /\ SubSeq(b, 1, Len(a)) = a

\* C34: no step of a start, stop or restart removes a log file or changes
\* what it holds other than by adding lines at its end, and a log file
\* always holds every line ever written to it, in the order written.
C34_LogsOnlyGrow ==
    /\ [][\A s \in DOMAIN lg_files :
            s \in DOMAIN lg_files' /\ IsPrefix(lg_files[s], lg_files'[s])]_vars
    /\ [](\A s \in DOMAIN lg_files : lg_files[s] = lg_all[s])

\* After a start, a stop and a second start, the stdout log holds the two
\* lines of the first daemon and after them the lines of the second.
C34_Witness ==
    /\ lg_gen = 2
    /\ "out" \in DOMAIN lg_files
    /\ lg_files["out"] = <<LogLine(1, 1), LogLine(1, 2), LogLine(2, 1), LogLine(2, 2)>>


\* The groups of the processes of the state stop acted on.
TrackedGroups == {cli_st.processes[i].pgid : i \in 1..Len(cli_st.processes)}

\* C35: when stop has returned after acting on a state it could read, no
\* member of the group of any process of that state is alive, a descendant
\* whose group leader had exited before the escalation included.
C35_StopLeavesNoGroupMember ==
    (cli_pc = "done" /\ cli_cmd = "stop" /\ cli_st # NoState) =>
        \A g \in TrackedGroups : GroupMembers(g) = {}


\* C36: when the wait of start with follow returns Ok, the daemon that this
\* start launched has finished saving its state, and the state the wait
\* read is that one, not one an earlier daemon left in state.json.
C36_ReadyMeansNewDaemonSaved ==
    (wr_pc = "ok" /\ sv_pc # "idle") =>
        /\ sv_pc = "done"
        /\ wr_polls[Len(wr_polls)].val = sv_state

\* C38: follow_combined reads the initial tail of a file (manager.rs:407-420)
\* before the follower of that file is spawned (manager.rs:423-436); the
\* initial state is the moment after that tail, of a file absent or empty,
\* so the tail held no line. Every line appended from then on is emitted
\* once: whenever the follower has caught up with a file that was never
\* truncated, it has sent one line for each line of the file, those
\* appended before it opened the file and sought to its end included.
C38_NoLineLostAfterTail ==
    (fl_truncs = 0 /\ fl_settled) =>
        Len(fl_sent) = newline_count(fl_file)

\* C39: a SIGINT delivered to the supervisor in either of its waiting
\* states, the select! with children running or the park after every
\* log-drain task has completed, leads to the shutdown protocol (SIGTERM
\* sent to every child's group) and to the supervisor's exit.
C39_SigintLeadsToShutdown ==
    (sup_pc \in {"waiting", "parked"} /\ "SIGINT" \in sup_sigs)
        ~> (/\ sup_pc = "exited"
            /\ \A i \in 1..Len(sup_children) :
                 \E k \in 1..Len(signals) :
                    signals[k] = Sig("SIGTERM", 0 - sup_children[i]))

====
